---- MODULE Spec2Model ----
(***************************************************************************)
(* A model of the Weave RAG engine (github.com/xraph/weave): the engine    *)
(* coordinator (engine/engine.go), the in-memory metadata store, the       *)
(* in-memory vector store, the sliding chunker and the shipped retrievers. *)
(*                                                                         *)
(* Texts are sequences of one-character strings.  Vectors are tuples of    *)
(* integers whose norms are integers, so that cosine similarity is an      *)
(* exact rational; scores are fixed-point numbers (ScoreOne = 1.0).        *)
(* Go strings that are compared with one another (tenants, ids, metadata   *)
(* values) are tuples; the empty string is the empty tuple.                *)
(***************************************************************************)
EXTENDS Integers, Sequences, FiniteSets, TLC

VARIABLES
    engine,       \* Engine fields: which collaborators are configured
    collections,  \* memory.Store.collections : collection id -> row
    documents,    \* memory.Store.documents   : document id -> row
    chunks,       \* memory.Store.chunks      : chunk id -> row
    entries,      \* vectorstore memory.Store.entries : entry id -> entry
    nextCol,      \* number of collection ids generated so far
    nextDoc,      \* number of document ids generated so far
    call,         \* per caller: the engine call it is in, with its locals
    cache         \* middleware.Cache.store : step name -> cache key -> snapshot

vars == <<engine, collections, documents, chunks, entries, nextCol, nextDoc, call, cache>>

storeVars == <<collections, documents, chunks>>

----------------------------------------------------------------------------
(* Bounds of the model *)

MaxCols == 2
MaxDocs == 2

AllProcs == {"p1", "p2"}

\* the empty string: no tenant in the context, no id, no option given
Empty == << >>

Tenants == { <<"A">>, <<"B">> }

Names == {"docs"}

\* ingest contents: empty, whitespace only, one character, two characters
Contents == { << >>, <<" ">>, <<"a">>, <<"a", "b">> }

Queries == { <<"b">>, <<"q">> }

SourceTypes == {"", "text/html"}

\* chunk sizes a caller puts on a collection (0: take the configured default)
ChunkSizeInputs == {0, 1}

----------------------------------------------------------------------------
(* Configuration defaults: weave.DefaultConfig *)

DefaultChunkSize == 512
DefaultChunkOverlap == 50
DefaultTopK == 10

\* the default top K of a vector store search
StoreDefaultTopK == 10

----------------------------------------------------------------------------
(* Maps *)

EmptyMap == [x \in {} |-> x]

Put(m, k, v) == [x \in (DOMAIN m) \cup {k} |-> IF x = k THEN v ELSE m[x]]

PutAll(m, n) == [x \in (DOMAIN m) \cup (DOMAIN n) |-> IF x \in DOMAIN n THEN n[x] ELSE m[x]]

Remove(m, S) == [x \in (DOMAIN m) \ S |-> m[x]]

Min(a, b) == IF a < b THEN a ELSE b

Range(s) == { s[i] : i \in DOMAIN s }

----------------------------------------------------------------------------
(* Identifiers: a type prefix and a fresh suffix *)

NewCollectionID(n) == <<"col", n>>

NewDocumentID(n) == <<"doc", n>>

\* chunk ids are generated while one document is ingested: the i-th id
\* generated for the chunks of document d
NewChunkID(d, i) == <<"chk", d[2], i>>

NilID == Empty

\* id.String(): the empty string for the nil id
IDString(id) == IF id = NilID THEN Empty ELSE id

\* fmt.Sprintf("%d", i)
IndexString(i) == <<i>>

----------------------------------------------------------------------------
(* Errors: a chain of messages, outermost first (fmt.Errorf with %w) *)

ErrCollectionNotFound == <<"weave: collection not found">>
ErrCollectionAlreadyExists == <<"weave: collection already exists">>
ErrDocumentNotFound == <<"weave: document not found">>
ErrDocumentAlreadyExists == <<"weave: document already exists">>
ErrDuplicateDocument == <<"weave: duplicate document (same content hash)">>
ErrEmptyContent == <<"weave: empty content">>
ErrNoStore == <<"weave: no store configured">>
ErrNoEmbedder == <<"weave: no embedder configured">>
ErrNoVectorStore == <<"weave: no vector store configured">>
ErrNoChunker == <<"weave: no chunker configured">>

\* an error of a collaborator (a loader, a chunker, an embedder, a database)
ErrCollaborator == <<"boom">>

NoError == << >>

Wrap(msg, err) == <<msg>> \o err

\* errors.Is(err, target) for a sentinel target
ErrorIs(err, target) == \E i \in 1..Len(err) : SubSeq(err, i, Len(err)) = target

\* err.Error(): the messages joined; empty only for the empty chain
ErrorString(err) == err

----------------------------------------------------------------------------
(* Texts *)

IsSpace(c) == c \in {" ", "\n", "\t"}

RECURSIVE TrimLeft(_)
TrimLeft(text) ==
    IF text # << >> /\ IsSpace(Head(text)) THEN TrimLeft(Tail(text)) ELSE text

RECURSIVE TrimRight(_)
TrimRight(text) ==
    IF text # << >> /\ IsSpace(text[Len(text)])
    THEN TrimRight(SubSeq(text, 1, Len(text) - 1))
    ELSE text

\* strings.TrimSpace
TrimSpace(text) == TrimRight(TrimLeft(text))

\* text[start:end] of Go, offsets from 0
Slice(text, start, end) == SubSeq(text, start + 1, end)

\* hex(sha256(content)): a digest, equal for equal contents only
ContentHash(content) == <<"sha256", content>>

----------------------------------------------------------------------------
(* chunker.SlidingChunker *)

\* a variant of the chunk record that numbers the chunks from 1
ChunkResultFromOne(content, idx, start, end) ==
    [Content |-> content, Index |-> idx + 1, StartOffset |-> start,
     EndOffset |-> end, TokenCount |-> Len(content) \div 4, Metadata |-> EmptyMap]

ChunkResult(content, idx, start, end) ==
    [Content |-> content, Index |-> idx, StartOffset |-> start,
     EndOffset |-> end, TokenCount |-> Len(content) \div 4, Metadata |-> EmptyMap]

RECURSIVE SlidingLoop(_, _, _, _, _, _)
SlidingLoop(text, start, idx, step, charSize, results) ==
    IF ~(start < Len(text)) THEN results
    ELSE LET end == Min(start + charSize, Len(text))
             next == Append(results, ChunkResult(Slice(text, start, end), idx, start, end))
         IN  SlidingLoop(text, start + step, idx + 1, step, charSize, next)

SlidingChunk(text, opts) ==
    LET chunkSize == IF opts.ChunkSize > 0 THEN opts.ChunkSize ELSE DefaultChunkSize
        overlap == IF opts.ChunkOverlap > 0 THEN opts.ChunkOverlap ELSE DefaultChunkOverlap
        charSize == chunkSize * 4
        charOverlap == overlap * 4
        trimmed == TrimSpace(text)
        step == IF charSize - charOverlap <= 0 THEN 1 ELSE charSize - charOverlap
    IN  IF trimmed = << >> THEN << >>
        ELSE SlidingLoop(trimmed, 0, 0, step, charSize, << >>)

\* what a call of a chunker comes to: it returns its chunks ("ok"), it
\* panics on a slice expression out of range ("panic"), or its loop comes
\* back to a state it was in and never ends ("diverges")
Outcome(status, pieces) == [status |-> status, chunks |-> pieces]

SlidingRun(text, opts) == Outcome("ok", SlidingChunk(text, opts))

----------------------------------------------------------------------------
(* chunker.FixedChunker *)

\* the loop of FixedChunker.Chunk from the offset start; seen holds the
\* offsets the loop has started an iteration at
RECURSIVE FixedLoop(_, _, _, _, _, _, _)
FixedLoop(text, charSize, charOverlap, start, idx, results, seen) ==
    IF ~(start < Len(text)) THEN Outcome("ok", results)
    ELSE IF start < 0 THEN Outcome("panic", results)
    ELSE IF start \in seen THEN Outcome("diverges", results)
    ELSE LET end == Min(start + charSize, Len(text))
             next == Append(results, ChunkResult(Slice(text, start, end), idx, start, end))
         IN  IF end - charOverlap >= end THEN Outcome("ok", next)
             ELSE FixedLoop(text, charSize, charOverlap, end - charOverlap, idx + 1, next,
                            seen \cup {start})

FixedRun(text, opts) ==
    LET chunkSize == IF opts.ChunkSize > 0 THEN opts.ChunkSize ELSE DefaultChunkSize
        overlap == IF opts.ChunkOverlap > 0 THEN opts.ChunkOverlap ELSE 0
        trimmed == TrimSpace(text)
    IN  IF trimmed = << >> THEN Outcome("ok", << >>)
        ELSE FixedLoop(trimmed, chunkSize * 4, overlap * 4, 0, 0, << >>, {})

----------------------------------------------------------------------------
(* chunker.RecursiveChunker *)

\* NewRecursiveChunker's separators, largest first
Separators == << <<"\n", "\n">>, <<"\n">>, <<".", " ">>, <<" ">> >>

\* strings.Index: the offset of the first sub in text, -1 when there is none
StringsIndex(text, sub) ==
    LET at == { i \in 0..(Len(text) - Len(sub)) : Slice(text, i, i + Len(sub)) = sub }
    IN  IF at = {} THEN 0 - 1 ELSE CHOOSE i \in at : \A j \in at : i <= j

\* strings.Split for a non-empty separator
RECURSIVE StringsSplit(_, _)
StringsSplit(text, sep) ==
    LET i == StringsIndex(text, sep)
    IN  IF i < 0 THEN <<text>>
        ELSE <<Slice(text, 0, i)>> \o StringsSplit(Slice(text, i + Len(sep), Len(text)), sep)

\* RecursiveChunker.splitAtSize from the offset start
RECURSIVE SplitAtSizeLoop(_, _, _, _, _, _)
SplitAtSizeLoop(text, chunkSize, overlap, start, pieces, seen) ==
    IF ~(start < Len(text)) THEN Outcome("ok", pieces)
    ELSE IF start < 0 THEN Outcome("panic", pieces)
    ELSE IF start \in seen THEN Outcome("diverges", pieces)
    ELSE LET end == Min(start + chunkSize, Len(text))
             next == Append(pieces, Slice(text, start, end))
         IN  IF end - overlap >= end THEN Outcome("ok", next)
             ELSE SplitAtSizeLoop(text, chunkSize, overlap, end - overlap, next,
                                  seen \cup {start})

splitAtSize(text, chunkSize, overlap) == SplitAtSizeLoop(text, chunkSize, overlap, 0, << >>, {})

\* RecursiveChunker.splitRecursive; SplitParts is its loop over the parts,
\* followed by the flush of what is left in current
RECURSIVE splitRecursive(_, _, _, _)
RECURSIVE SplitParts(_, _, _, _, _, _)
SplitParts(parts, separators, chunkSize, overlap, pieces, current) ==
    LET sep == Head(separators)
        chunk == TrimSpace(current)
        sub == splitRecursive(chunk, Tail(separators), chunkSize, overlap)
        flushes == chunk # << >> /\ Len(chunk) > chunkSize
        flushed == IF chunk = << >> THEN pieces
                   ELSE IF Len(chunk) > chunkSize THEN pieces \o sub.chunks
                   ELSE Append(pieces, chunk)
    IN  IF parts = << >>
        THEN IF current = << >> THEN Outcome("ok", pieces)
             ELSE IF flushes /\ sub.status # "ok" THEN Outcome(sub.status, pieces)
             ELSE Outcome("ok", flushed)
        ELSE LET part == TrimSpace(Head(parts))
                 full == Len(current) + Len(part) + Len(sep) > chunkSize /\ Len(current) > 0
                 kept == IF overlap > 0 /\ Len(chunk) > overlap
                         THEN Slice(chunk, Len(chunk) - overlap, Len(chunk)) \o sep
                         ELSE << >>
                 current1 == IF full THEN kept ELSE current
                 current2 == (IF current1 # << >> THEN current1 \o sep ELSE current1) \o part
             IN  IF part = << >>
                 THEN SplitParts(Tail(parts), separators, chunkSize, overlap, pieces, current)
                 ELSE IF full /\ flushes /\ sub.status # "ok"
                 THEN Outcome(sub.status, pieces)
                 ELSE SplitParts(Tail(parts), separators, chunkSize, overlap,
                                 IF full THEN flushed ELSE pieces, current2)

splitRecursive(text, separators, chunkSize, overlap) ==
    IF Len(text) <= chunkSize THEN Outcome("ok", <<text>>)
    ELSE IF separators = << >> THEN splitAtSize(text, chunkSize, overlap)
    ELSE SplitParts(StringsSplit(text, Head(separators)), separators, chunkSize, overlap,
                    << >>, << >>)

\* the results of RecursiveChunker.Chunk: each chunk is looked up in the text
\* from the offset of the chunk before it
RECURSIVE RecursiveResults(_, _, _, _)
RecursiveResults(text, pieces, i, offset) ==
    IF i > Len(pieces) THEN << >>
    ELSE LET found == StringsIndex(Slice(text, offset, Len(text)), pieces[i])
             start == IF found = 0 - 1 THEN 0 ELSE found + offset
         IN  <<ChunkResult(pieces[i], i - 1, start, start + Len(pieces[i]))>>
                 \o RecursiveResults(text, pieces, i + 1, start)

RecursiveRun(text, opts) ==
    LET chunkSize == IF opts.ChunkSize > 0 THEN opts.ChunkSize ELSE DefaultChunkSize
        overlap == IF opts.ChunkOverlap > 0 THEN opts.ChunkOverlap ELSE 0
        trimmed == TrimSpace(text)
        split == splitRecursive(trimmed, Separators, chunkSize * 4, overlap * 4)
    IN  IF trimmed = << >> THEN Outcome("ok", << >>)
        ELSE Outcome(split.status, RecursiveResults(trimmed, split.chunks, 1, 0))

\* a chunker of the application's own: the whole text as one chunk, with
\* the chunker's metadata on it
CustomRun(text, metadata) ==
    Outcome("ok", << [ChunkResult(text, 0, 0, Len(text)) EXCEPT !.Metadata = metadata] >>)

\* chunker metadata with a key of its own, and with a key the engine uses
SectionMetadata == [k \in {"section"} |-> <<"1">>]

TenantMetadata == [k \in {"tenant_id"} |-> <<"B">>]

\* Chunker.Chunk of the chunker the engine was given
ChunkerRun(kind, text, opts) ==
    CASE kind = "fixed"     -> FixedRun(text, opts)
      [] kind = "recursive" -> RecursiveRun(text, opts)
      [] kind = "section"   -> CustomRun(text, SectionMetadata)
      [] kind = "tenant"    -> CustomRun(text, TenantMetadata)
      [] OTHER              -> SlidingRun(text, opts)

----------------------------------------------------------------------------
(* The embedder: one vector per text, the same vector for the same text *)

EmbedVector(text) ==
    CASE text = <<"a">>      -> <<1, 0>>
      [] text = <<"a", "b">> -> <<3, 4>>
      [] text = <<"b">>      -> <<0, 1>>
      [] text = <<"q">>      -> <<-1, 0>>
      [] OTHER               -> <<4, 3>>

Embed(texts) == [i \in 1..Len(texts) |-> [Vector |-> EmbedVector(texts[i])]]

----------------------------------------------------------------------------
(* Cosine similarity.  Scores are fixed-point numbers: ScoreOne is 1.0 *)

ScoreOne == 1000 * 1000

RECURSIVE DotFrom(_, _, _)
DotFrom(a, b, i) == IF i > Len(a) THEN 0 ELSE a[i] * b[i] + DotFrom(a, b, i + 1)

Dot(a, b) == DotFrom(a, b, 1)

\* math.Sqrt on the squared norms of the model's vectors, which are squares
Sqrt(n) == CHOOSE r \in 0..n : r * r = n

cosineSimilarity(a, b) ==
    IF Len(a) # Len(b) \/ Len(a) = 0 THEN 0
    ELSE IF Dot(a, a) = 0 \/ Dot(b, b) = 0 THEN 0
    ELSE (Dot(a, b) * ScoreOne) \div (Sqrt(Dot(a, a)) * Sqrt(Dot(b, b)))

----------------------------------------------------------------------------
(* vectorstore/memory: the in-memory vector store *)

\* metadata[k] of a Go map: the empty string for a missing key
MetaGet(metadata, k) == IF k \in DOMAIN metadata THEN metadata[k] ELSE Empty

matchesFilter(metadata, filter) ==
    \A k \in DOMAIN filter : MetaGet(metadata, k) = filter[k]

VSUpsert(ents, new) == PutAll(ents, new)

\* a variant of Store.DeleteByMetadata that deletes nothing
VSDeleteNothing(ents, filter) == ents

VSDeleteByMetadata(ents, filter) ==
    Remove(ents, { id \in DOMAIN ents : matchesFilter(ents[id].Metadata, filter) })

\* the entries a search keeps, before sorting
SearchKeeps(ents, vector, opts, id) ==
    /\ (DOMAIN opts.Filter # {} => matchesFilter(ents[id].Metadata, opts.Filter))
    /\ (opts.TenantKey # Empty => MetaGet(ents[id].Metadata, "tenant_id") = opts.TenantKey)
    /\ ~(opts.MinScore > 0 /\ cosineSimilarity(vector, ents[id].Vector) < opts.MinScore)

SearchResult(ents, vector, id) ==
    [ID |-> id, Vector |-> ents[id].Vector, Content |-> ents[id].Content,
     Metadata |-> ents[id].Metadata, Score |-> cosineSimilarity(vector, ents[id].Vector)]

\* every order sort.Slice may leave a set of results in: descending by score,
\* results of equal score in any order (the map is ranged in any order)
RECURSIVE SortedByScore(_)
SortedByScore(rs) ==
    IF rs = {} THEN { << >> }
    ELSE UNION { { <<r>> \o t : t \in SortedByScore(rs \ {r}) } :
                 r \in { x \in rs : \A y \in rs : y.Score <= x.Score } }

Truncate(s, k) == IF Len(s) > k THEN SubSeq(s, 1, k) ELSE s

\* Store.Search: the set of result sequences it may return
VSSearch(ents, vector, opts) ==
    LET topK == IF opts.TopK > 0 THEN opts.TopK ELSE StoreDefaultTopK
        kept == { SearchResult(ents, vector, id) :
                  id \in { x \in DOMAIN ents : SearchKeeps(ents, vector, opts, x) } }
    IN  { Truncate(s, topK) : s \in SortedByScore(kept) }

----------------------------------------------------------------------------
(* store/memory: the in-memory metadata store *)

\* Store.CreateCollection: the error it returns (NoError: created)
StoreCreateCollectionErr(cols, col) ==
    IF col.ID \in DOMAIN cols THEN ErrCollectionAlreadyExists
    ELSE IF \E k \in DOMAIN cols :
                cols[k].TenantID = col.TenantID /\ cols[k].Name = col.Name
         THEN ErrCollectionAlreadyExists
         ELSE NoError

\* Store.UpdateCollection: the error it returns (NoError: the row is replaced)
StoreUpdateCollectionErr(cols, col) ==
    IF col.ID \in DOMAIN cols THEN NoError ELSE ErrCollectionNotFound

\* Store.GetCollection
StoreGetCollectionErr(cols, colID) ==
    IF colID \in DOMAIN cols THEN NoError ELSE ErrCollectionNotFound

\* Store.DeleteCollection, with its cascade
StoreDeleteCollectionErr(cols, colID) ==
    IF colID \in DOMAIN cols THEN NoError ELSE ErrCollectionNotFound

DocsOfCollection(docs, colID) == { d \in DOMAIN docs : docs[d].CollectionID = colID }

ChunksOfCollection(chs, colID) == { c \in DOMAIN chs : chs[c].CollectionID = colID }

\* a variant of the selection that finds no chunk
ChunksOfDocumentNone(chs, docID) == {}

ChunksOfDocument(chs, docID) == { c \in DOMAIN chs : chs[c].DocumentID = docID }

\* a variant of Store.CreateDocument without the content-hash check
StoreCreateDocumentErrNoHash(docs, doc) ==
    IF doc.ID \in DOMAIN docs THEN ErrDocumentAlreadyExists ELSE NoError

\* Store.CreateDocument: the error it returns (NoError: created)
StoreCreateDocumentErr(docs, doc) ==
    IF doc.ID \in DOMAIN docs THEN ErrDocumentAlreadyExists
    ELSE IF \E k \in DOMAIN docs :
                /\ docs[k].CollectionID = doc.CollectionID
                /\ docs[k].ContentHash = doc.ContentHash
         THEN ErrDuplicateDocument
         ELSE NoError

----------------------------------------------------------------------------
(* store/postgres, store/sqlite, store/mongo: the database metadata stores *)

Backends == {"memory", "postgres", "sqlite", "mongo"}

\* the error the database driver returns for an insert that violates a
\* primary key or a unique index
ErrUniqueViolation == <<"unique constraint violated">>

\* Store.CreateCollection of the backend: the database stores insert the row
\* and wrap whatever the driver returns
BackendCreateCollectionErr(backend, cols, col) ==
    IF backend = "memory" THEN StoreCreateCollectionErr(cols, col)
    ELSE IF \/ col.ID \in DOMAIN cols
            \/ \E k \in DOMAIN cols : cols[k].TenantID = col.TenantID /\ cols[k].Name = col.Name
         THEN Wrap("weave: create collection", ErrUniqueViolation)
         ELSE NoError

\* Store.CreateDocument of the backend
BackendCreateDocumentErr(backend, docs, doc) ==
    IF backend = "memory" THEN StoreCreateDocumentErr(docs, doc)
    ELSE IF \/ doc.ID \in DOMAIN docs
            \/ \E k \in DOMAIN docs : /\ docs[k].CollectionID = doc.CollectionID
                                      /\ docs[k].ContentHash = doc.ContentHash
         THEN Wrap("weave: create document", ErrUniqueViolation)
         ELSE NoError

\* Store.UpdateDocument
StoreUpdateDocumentErr(docs, doc) ==
    IF doc.ID \in DOMAIN docs THEN NoError ELSE ErrDocumentNotFound

StoreUpdateDocument(docs, doc) ==
    IF StoreUpdateDocumentErr(docs, doc) = NoError THEN Put(docs, doc.ID, doc) ELSE docs

\* Store.DeleteDocument
StoreDeleteDocumentErr(docs, docID) ==
    IF docID \in DOMAIN docs THEN NoError ELSE ErrDocumentNotFound

\* Store.ListDocuments with a collection and a state filter, ordered by
\* created_at: documents are created in the order their ids are generated
RECURSIVE SortedIDs(_)
SortedIDs(S) ==
    IF S = {} THEN << >>
    ELSE LET m == CHOOSE x \in S : \A y \in S : x[2] <= y[2]
         IN  <<m>> \o SortedIDs(S \ {m})

StoreListDocuments(docs, colID, state) ==
    SortedIDs({ d \in DOMAIN docs :
                  /\ (IDString(colID) # Empty => docs[d].CollectionID = colID)
                  /\ (state # "" => docs[d].State = state) })

\* Store.CountDocuments / Store.CountChunks with a collection filter
StoreCountDocuments(docs, colID) ==
    Cardinality({ d \in DOMAIN docs : IDString(colID) # Empty => docs[d].CollectionID = colID })

StoreCountChunks(chs, colID) ==
    Cardinality({ c \in DOMAIN chs : IDString(colID) # Empty => chs[c].CollectionID = colID })

\* Store.CreateChunkBatch
StoreCreateChunkBatch(chs, batch) ==
    PutAll(chs, [id \in { batch[i].ID : i \in DOMAIN batch } |->
                    (CHOOSE c \in Range(batch) : c.ID = id)])

\* Store.ListChunksByDocument: ordered by index
RECURSIVE SortedByIndex(_, _)
SortedByIndex(chs, S) ==
    IF S = {} THEN << >>
    ELSE LET m == CHOOSE x \in S : \A y \in S : chs[x].Index <= chs[y].Index
         IN  <<chs[m]>> \o SortedByIndex(chs, S \ {m})

StoreListChunksByDocument(chs, docID) == SortedByIndex(chs, ChunksOfDocument(chs, docID))

----------------------------------------------------------------------------
(* The engine: calls and their locals *)

NoRow == [ID |-> NilID]

NoResult == [DocumentID |-> NilID, ChunkCount |-> 0, State |-> ""]

\* a caller that is in no engine call
Idle ==
    [op |-> "idle", pc |-> "idle", tenant |-> Empty, colID |-> NilID, docID |-> NilID,
     content |-> << >>, sourceType |-> "", col |-> NoRow, doc |-> NoRow,
     chunks |-> << >>, entries |-> EmptyMap, docs |-> << >>, ingestErr |-> NoError,
     vsDeleteFailed |-> FALSE, returned |-> FALSE, err |-> NoError,
     result |-> NoResult, scored |-> << >>, given |-> NoRow, params |-> NoRow,
     list |-> << >>,
     events |-> << >>, hooks |-> << >>,
     before |-> EmptyMap, inBatch |-> FALSE, inputs |-> << >>, batch |-> << >>, results |-> << >>, started |-> 0]

\* the faults of the collaborators a run may meet
IngestFaults == {"load", "chunk", "embed", "storeChunks", "upsert"}

AllFaults == IngestFaults \cup {"vsDelete", "reindexEmbed", "reindexUpsert"}

NoFaults == {}

Outcomes(F, named) == {"ok"} \cup (F \cap named)

\* a variant of the emit that records the event ahead of the earlier ones
EmitFirst(c, event) == <<event>> \o c.events

Emit(c, event) == Append(c.events, event)

\* Registry.Register: the per-hook cache, the extensions implementing the hook
\* in registration order
\* a variant that emits the event whatever the store returned
EmitAlways(c, err, event) == Emit(c, event)

\* the events of a call that returns on the error of its store call and
\* emits the event otherwise
EmitAfter(c, err, event) == IF err # NoError THEN c.events ELSE Emit(c, event)

RECURSIVE Registered(_, _)
Registered(exts, event) ==
    IF exts = << >> THEN << >>
    ELSE IF event \in Head(exts).hooks
    THEN <<Head(exts)>> \o Registered(Tail(exts), event)
    ELSE Registered(Tail(exts), event)

\* a variant of the emit that stops at the first hook returning an error
RECURSIVE EmitUntilError(_, _)
EmitUntilError(cached, event) ==
    IF cached = << >> THEN << >>
    ELSE LET e == Head(cached)
             failed == event \in e.fails
         IN  <<[event |-> event, ext |-> e.name, logged |-> failed]>>
                 \o (IF failed THEN << >> ELSE EmitUntilError(Tail(cached), event))

\* Registry.Emit*: each cached hook is invoked in turn; an error is logged
EmitLoop(cached, event) ==
    [i \in DOMAIN cached |->
        [event |-> event, ext |-> cached[i].name, logged |-> event \in cached[i].fails]]

RegistryEmit(exts, event) == EmitLoop(Registered(exts, event), event)

\* the hook invocations of the call, with those of one more emit
Notify(c, event) == c.hooks \o RegistryEmit(engine.extensions, event)

\* the call returns: its results stay in the caller's hands until Return; an
\* Ingest called by IngestBatch returns to the loop of IngestBatch
Done(c, err) ==
    [c EXCEPT !.pc = IF c.inBatch THEN "batchNext" ELSE "done", !.returned = TRUE, !.err = err]

GeneratedCols == { NewCollectionID(i) : i \in 1..nextCol }

GeneratedDocs == { NewDocumentID(i) : i \in 1..nextDoc }

----------------------------------------------------------------------------
(* Engine.CreateCollection *)

\* the collection as persisted: blank fields filled from the context and
\* from the configuration
FilledCollection(col, newID, ctxTenant) ==
    [ID |-> IF IDString(col.ID) = Empty THEN newID ELSE col.ID,
     Name |-> col.Name,
     TenantID |-> IF col.TenantID = Empty THEN ctxTenant ELSE col.TenantID,
     ChunkSize |-> IF col.ChunkSize = 0 THEN DefaultChunkSize ELSE col.ChunkSize,
     ChunkOverlap |-> IF col.ChunkOverlap = 0 THEN DefaultChunkOverlap ELSE col.ChunkOverlap]

CreateCollection(p, ctxTenant, in) ==
    /\ call[p].pc = "idle"
    /\ nextCol < MaxCols
    /\ LET col == FilledCollection(in, NewCollectionID(nextCol + 1), ctxTenant)
           err == IF ~engine.store THEN ErrNoStore
                  ELSE BackendCreateCollectionErr(engine.backend, collections, col)
           c0 == [Idle EXCEPT !.op = "CreateCollection", !.tenant = ctxTenant,
                              !.colID = col.ID, !.col = col]
       IN  IF err # NoError
           THEN /\ call' = [call EXCEPT ![p] =
                              Done([c0 EXCEPT !.events = EmitAfter(c0, err, "collection-created")], err)]
                /\ UNCHANGED <<cache, collections, nextCol>>
           ELSE /\ collections' = Put(collections, col.ID, col)
                /\ nextCol' = nextCol + 1
                /\ call' = [call EXCEPT ![p] =
                              Done([c0 EXCEPT !.events = EmitAfter(c0, err, "collection-created"),
                                              !.hooks = Notify(c0, "collection-created")], err)]
    /\ UNCHANGED <<cache, engine, documents, chunks, entries, nextDoc>>

----------------------------------------------------------------------------
(* Engine.Ingest *)

\* loader.HTMLLoader on a text without markup
LoaderSupports(mimeType) == mimeType = "text/html" \/ mimeType = "application/xhtml+xml"

LoaderLoad(content) == TrimSpace(content)

NewDocument(docID, colID, tenantID, content) ==
    [ID |-> docID, CollectionID |-> colID, TenantID |-> tenantID,
     ContentHash |-> ContentHash(content), ContentLength |-> Len(content),
     ChunkCount |-> 0, State |-> "pending", Error |-> Empty]

\* a variant of the checks that lets an engine without a chunker through
IngestPreconditionErrChunkerUnchecked(eng, cols, in) ==
    IF ~eng.store THEN ErrNoStore
    ELSE IF ~eng.embedder THEN ErrNoEmbedder
    ELSE IF ~eng.vectorStore THEN ErrNoVectorStore
    ELSE IF in.Content = << >> THEN ErrEmptyContent
    ELSE StoreGetCollectionErr(cols, in.CollectionID)

\* the checks of Ingest up to the collection lookup
IngestPreconditionErr(eng, cols, in) ==
    IF ~eng.store THEN ErrNoStore
    ELSE IF ~eng.embedder THEN ErrNoEmbedder
    ELSE IF ~eng.vectorStore THEN ErrNoVectorStore
    ELSE IF ~eng.chunker THEN ErrNoChunker
    ELSE IF in.Content = << >> THEN ErrEmptyContent
    ELSE StoreGetCollectionErr(cols, in.CollectionID)

\* the call record once Ingest has checked its preconditions and looked the
\* collection up; base is the caller's record, Idle for a direct call
IngestEnter(base, ctxTenant, in) ==
    LET err == IngestPreconditionErr(engine, collections, in)
        c0 == [base EXCEPT !.op = "Ingest", !.tenant = ctxTenant,
                           !.colID = in.CollectionID, !.content = in.Content,
                           !.sourceType = in.SourceType]
    IN  IF err # NoError
        THEN Done(c0, err)
        ELSE [c0 EXCEPT !.pc = "createDocument", !.col = collections[in.CollectionID]]

\* the bound on the documents leaves room for the document of this Ingest
IngestHasRoom(in) ==
    \/ nextDoc < MaxDocs
    \/ IngestPreconditionErr(engine, collections, in) # NoError
    \/ \E d \in DOMAIN documents :
          /\ documents[d].CollectionID = in.CollectionID
          /\ documents[d].ContentHash = ContentHash(in.Content)

IngestStart(p, ctxTenant, in) ==
    /\ call[p].pc = "idle"
    /\ IngestHasRoom(in)
    /\ call' = [call EXCEPT ![p] = IngestEnter(Idle, ctxTenant, in)]
    /\ UNCHANGED <<cache, engine, collections, documents, chunks, entries, nextCol, nextDoc>>

IngestCreateDocument(p) ==
    /\ call[p].pc = "createDocument"
    /\ LET c == call[p]
           doc == NewDocument(NewDocumentID(nextDoc + 1), c.colID, c.tenant, c.content)
           err == BackendCreateDocumentErr(engine.backend, documents, doc)
       IN  IF err # NoError
           THEN /\ call' = [call EXCEPT ![p] = Done(c, Wrap("weave: create document", err))]
                /\ UNCHANGED <<cache, documents, nextDoc>>
           ELSE /\ nextDoc < MaxDocs
                /\ documents' = Put(documents, doc.ID, doc)
                /\ nextDoc' = nextDoc + 1
                /\ call' = [call EXCEPT ![p] =
                              [c EXCEPT !.pc = "markProcessing", !.doc = doc, !.docID = doc.ID,
                                        !.events = Emit(c, "ingest-started"), !.hooks = Notify(c, "ingest-started")]]
    /\ UNCHANGED <<cache, engine, collections, chunks, entries, nextCol>>

\* the best-effort UpdateDocument of Ingest and failIngest
BestEffortUpdate(docs, doc, outcome) ==
    IF outcome = "ok" THEN StoreUpdateDocument(docs, doc) ELSE docs

IngestMarkProcessing(p, F) ==
    /\ call[p].pc = "markProcessing"
    /\ \E outcome \in Outcomes(F, {"updateDocument"}) :
         LET c == call[p]
             doc == [c.doc EXCEPT !.State = "processing"]
         IN  /\ documents' = BestEffortUpdate(documents, doc, outcome)
             /\ call' = [call EXCEPT ![p] = [c EXCEPT !.pc = "process", !.doc = doc]]
    /\ UNCHANGED <<cache, engine, collections, chunks, entries, nextCol, nextDoc>>

\* the chunk entities Ingest builds from the chunker's results
BuildChunks(docID, colID, tenantID, results) ==
    [i \in 1..Len(results) |->
        [ID |-> NewChunkID(docID, i), DocumentID |-> docID, CollectionID |-> colID,
         TenantID |-> tenantID, Content |-> results[i].Content, Index |-> results[i].Index,
         StartOffset |-> results[i].StartOffset, EndOffset |-> results[i].EndOffset,
         TokenCount |-> results[i].TokenCount, Metadata |-> results[i].Metadata]]

\* the metadata of a vector entry: the engine's keys, then the chunk's own
EntryMetadata(colID, docID, tenantID, ch) ==
    PutAll([k \in {"collection_id", "document_id", "tenant_id", "chunk_index"} |->
               CASE k = "collection_id" -> IDString(colID)
                 [] k = "document_id"   -> IDString(docID)
                 [] k = "tenant_id"     -> tenantID
                 [] k = "chunk_index"   -> IndexString(ch.Index)],
           ch.Metadata)

\* a variant of BuildEntries that builds the entry of the first chunk only
BuildEntriesFirstOnly(chs, embedResults, colID, docID, tenantID) ==
    [id \in { chs[i].ID : i \in DOMAIN chs \cap {1} } |->
        [ID |-> IDString(chs[1].ID), Vector |-> embedResults[1].Vector,
         Content |-> chs[1].Content,
         Metadata |-> EntryMetadata(colID, docID, tenantID, chs[1])]]

\* the vector entries Ingest builds, by id
BuildEntries(chs, embedResults, colID, docID, tenantID) ==
    [id \in { chs[i].ID : i \in DOMAIN chs } |->
        LET i == CHOOSE j \in DOMAIN chs : chs[j].ID = id
        IN  [ID |-> IDString(chs[i].ID), Vector |-> embedResults[i].Vector,
             Content |-> chs[i].Content,
             Metadata |-> EntryMetadata(colID, docID, tenantID, chs[i])]]

ChunkTexts(chs) == [i \in DOMAIN chs |-> chs[i].Content]

\* load, chunk and embed: the collaborators' stage of Ingest
IngestProcess(p, F) ==
    /\ call[p].pc = "process"
    /\ LET c == call[p]
           loads == /\ engine.loader
                    /\ c.sourceType # ""
                    /\ LoaderSupports(c.sourceType)
       IN  \E outcome \in Outcomes(F, (IF loads THEN {"load"} ELSE {}) \cup {"chunk", "embed", "embedShort"}) :
             LET content == IF loads THEN LoaderLoad(c.content) ELSE c.content
                 opts == [ChunkSize |-> c.col.ChunkSize, ChunkOverlap |-> c.col.ChunkOverlap]
                 run == ChunkerRun(engine.chunkerKind, content, opts)
                 chs == BuildChunks(c.docID, c.colID, c.tenant, run.chunks)
                 ents == BuildEntries(chs, Embed(ChunkTexts(chs)), c.colID, c.docID, c.tenant)
             IN  CASE outcome = "load" ->
                        call' = [call EXCEPT ![p] =
                                   [c EXCEPT !.pc = "fail", !.ingestErr = ErrCollaborator]]
                   [] outcome = "chunk" ->
                        call' = [call EXCEPT ![p] =
                                   [c EXCEPT !.pc = "fail",
                                             !.ingestErr = Wrap("chunk", ErrCollaborator)]]
                   [] run.status # "ok" ->
                        \* the chunker panics or never returns, and Ingest with it
                        call' = [call EXCEPT ![p] = [c EXCEPT !.pc = run.status]]
                   [] outcome = "embed" ->
                        call' = [call EXCEPT ![p] =
                                   [c EXCEPT !.pc = "fail", !.chunks = chs,
                                             !.events = Emit(c, "ingest-chunked"), !.hooks = Notify(c, "ingest-chunked"),
                                             !.ingestErr = Wrap("embed", ErrCollaborator)]]
                   [] outcome = "embedShort" /\ chs # << >> ->
                        \* no error and fewer results than texts: embedResults[i]
                        \* is out of range, and Ingest panics after its event
                        call' = [call EXCEPT ![p] =
                                   [c EXCEPT !.pc = "panic", !.chunks = chs,
                                             !.events = c.events \o
                                                 <<"ingest-chunked", "ingest-embedded">>,
                                             !.hooks = c.hooks
                                                 \o RegistryEmit(engine.extensions, "ingest-chunked")
                                                 \o RegistryEmit(engine.extensions, "ingest-embedded")]]
                   [] OTHER ->
                        call' = [call EXCEPT ![p] =
                                   [c EXCEPT !.pc = "storeChunks", !.chunks = chs,
                                             !.entries = ents,
                                             !.events = c.events \o
                                                 <<"ingest-chunked", "ingest-embedded">>,
                                             !.hooks = c.hooks
                                                 \o RegistryEmit(engine.extensions, "ingest-chunked")
                                                 \o RegistryEmit(engine.extensions, "ingest-embedded")]]
    /\ UNCHANGED <<cache, engine, collections, documents, chunks, entries, nextCol, nextDoc>>

IngestStoreChunks(p, F) ==
    /\ call[p].pc = "storeChunks"
    /\ \E outcome \in Outcomes(F, {"storeChunks"}) :
         LET c == call[p]
         IN  IF outcome = "ok"
             THEN /\ chunks' = StoreCreateChunkBatch(chunks, c.chunks)
                  /\ call' = [call EXCEPT ![p] = [c EXCEPT !.pc = "upsert"]]
             ELSE /\ chunks' = chunks
                  /\ call' = [call EXCEPT ![p] =
                                [c EXCEPT !.pc = "fail",
                                          !.ingestErr = Wrap("store chunks", ErrCollaborator)]]
    /\ UNCHANGED <<cache, engine, collections, documents, entries, nextCol, nextDoc>>

IngestUpsert(p, F) ==
    /\ call[p].pc = "upsert"
    /\ \E outcome \in Outcomes(F, {"upsert"}) :
         LET c == call[p]
         IN  IF outcome = "ok"
             THEN /\ entries' = VSUpsert(entries, c.entries)
                  /\ call' = [call EXCEPT ![p] = [c EXCEPT !.pc = "markReady"]]
             ELSE /\ entries' = entries
                  /\ call' = [call EXCEPT ![p] =
                                [c EXCEPT !.pc = "fail",
                                          !.ingestErr = Wrap("upsert vectors", ErrCollaborator)]]
    /\ UNCHANGED <<cache, engine, collections, documents, chunks, nextCol, nextDoc>>

\* a variant that puts the document back to pending
ReadyDocumentPending(doc, n) == [doc EXCEPT !.State = "pending", !.ChunkCount = n]

ReadyDocument(doc, n) == [doc EXCEPT !.State = "ready", !.ChunkCount = n]

IngestMarkReady(p, F) ==
    /\ call[p].pc = "markReady"
    /\ \E outcome \in Outcomes(F, {"updateDocument"}) :
         LET c == call[p]
             doc == ReadyDocument(c.doc, Len(c.chunks))
         IN  /\ documents' = BestEffortUpdate(documents, doc, outcome)
             /\ call' = [call EXCEPT ![p] =
                           Done([c EXCEPT !.doc = doc,
                                          !.events = Emit(c, "ingest-completed"), !.hooks = Notify(c, "ingest-completed"),
                                          !.result = [DocumentID |-> doc.ID,
                                                      ChunkCount |-> Len(c.chunks),
                                                      State |-> "ready"]],
                                NoError)]
    /\ UNCHANGED <<cache, engine, collections, chunks, entries, nextCol, nextDoc>>

\* a variant of failIngest that leaves the document as it is
FailedDocumentUnchanged(doc, ingestErr) == doc

\* a variant of failIngest that does not record the error
FailedDocumentNoError(doc, ingestErr) == [doc EXCEPT !.State = "failed"]

\* Engine.failIngest
FailedDocument(doc, ingestErr) ==
    [doc EXCEPT !.State = "failed", !.Error = ErrorString(ingestErr)]

IngestFail(p, F) ==
    /\ call[p].pc = "fail"
    /\ \E outcome \in Outcomes(F, {"updateDocument"}) :
         LET c == call[p]
             doc == FailedDocument(c.doc, c.ingestErr)
         IN  /\ documents' = BestEffortUpdate(documents, doc, outcome)
             /\ call' = [call EXCEPT ![p] =
                           Done([c EXCEPT !.doc = doc,
                                          !.events = Emit(c, "ingest-failed"), !.hooks = Notify(c, "ingest-failed"),
                                          !.result = [DocumentID |-> doc.ID,
                                                      ChunkCount |-> 0,
                                                      State |-> "failed"]],
                                Wrap("weave: ingest failed", c.ingestErr))]
    /\ UNCHANGED <<cache, engine, collections, chunks, entries, nextCol, nextDoc>>

----------------------------------------------------------------------------
(* Engine.IngestBatch *)

\* the record of the batch with the locals of an Ingest cleared
BatchBase(c) ==
    [Idle EXCEPT !.inBatch = TRUE, !.tenant = c.tenant, !.inputs = c.inputs,
                 !.batch = c.batch, !.results = c.results, !.started = c.started]

\* a variant of the loop's error branch that carries on with the next input
BatchAfterErrorContinue(c) == [BatchBase(c) EXCEPT !.op = "IngestBatch", !.pc = "batchLoop"]

\* the error branch of the loop: the results so far and the error
BatchAfterError(c) ==
    [BatchBase(c) EXCEPT !.op = "IngestBatch", !.inBatch = FALSE, !.pc = "done",
                         !.returned = TRUE, !.err = c.err]

IngestBatchStart(p, ctxTenant, inputs) ==
    /\ call[p].pc = "idle"
    /\ nextDoc + Len(inputs) <= MaxDocs
    /\ call' = [call EXCEPT ![p] =
                  [Idle EXCEPT !.op = "IngestBatch", !.pc = "batchLoop", !.inBatch = TRUE,
                               !.tenant = ctxTenant, !.inputs = inputs, !.batch = inputs]]
    /\ UNCHANGED <<cache, engine, collections, documents, chunks, entries, nextCol, nextDoc>>

\* the head of the loop: the next input is ingested, or the loop is over
IngestBatchLoop(p) ==
    /\ call[p].pc = "batchLoop"
    /\ LET c == call[p]
       IN  IF c.batch = << >>
           THEN call' = [call EXCEPT ![p] =
                           [BatchBase(c) EXCEPT !.op = "IngestBatch", !.inBatch = FALSE,
                                                !.pc = "done", !.returned = TRUE]]
           ELSE call' = [call EXCEPT ![p] =
                           IngestEnter([BatchBase(c) EXCEPT !.batch = Tail(c.batch),
                                                            !.started = c.started + 1],
                                       c.tenant, Head(c.batch))]
    /\ UNCHANGED <<cache, engine, collections, documents, chunks, entries, nextCol, nextDoc>>

\* the Ingest of the loop has returned
IngestBatchNext(p) ==
    /\ call[p].pc = "batchNext"
    /\ LET c == call[p]
       IN  IF c.err # NoError
           THEN call' = [call EXCEPT ![p] = BatchAfterError(c)]
           ELSE call' = [call EXCEPT ![p] =
                           [BatchBase(c) EXCEPT !.op = "IngestBatch", !.pc = "batchLoop",
                                                !.results = Append(c.results, c.result)]]
    /\ UNCHANGED <<cache, engine, collections, documents, chunks, entries, nextCol, nextDoc>>

\* the caller takes the results; it may call again
Return(p) ==
    /\ call[p].pc = "done"
    /\ call' = [call EXCEPT ![p] = Idle]
    /\ UNCHANGED <<cache, engine, collections, documents, chunks, entries, nextCol, nextDoc>>

----------------------------------------------------------------------------
(* Engine.DeleteCollection *)

CollectionFilter(colID) == [k \in {"collection_id"} |-> IDString(colID)]

DocumentFilter(docID) == [k \in {"document_id"} |-> IDString(docID)]

\* Store.DeleteChunksByCollection
DeleteCollectionStart(p, ctxTenant, colID) ==
    /\ call[p].pc = "idle"
    /\ LET c0 == [Idle EXCEPT !.op = "DeleteCollection", !.tenant = ctxTenant, !.colID = colID]
       IN  IF ~engine.store
           THEN /\ call' = [call EXCEPT ![p] = Done(c0, ErrNoStore)]
                /\ chunks' = chunks
           ELSE /\ chunks' = Remove(chunks, ChunksOfCollection(chunks, colID))
                /\ call' = [call EXCEPT ![p] = [c0 EXCEPT !.pc = "dcDocuments"]]
    /\ UNCHANGED <<cache, engine, collections, documents, entries, nextCol, nextDoc>>

\* Store.DeleteDocumentsByCollection: the documents and their chunks
DeleteCollectionDocuments(p) ==
    /\ call[p].pc = "dcDocuments"
    /\ LET c == call[p]
           gone == DocsOfCollection(documents, c.colID)
       IN  /\ chunks' = Remove(chunks, { k \in DOMAIN chunks : chunks[k].DocumentID \in gone })
           /\ documents' = Remove(documents, gone)
           /\ call' = [call EXCEPT ![p] = [c EXCEPT !.pc = "dcVectors"]]
    /\ UNCHANGED <<cache, engine, collections, entries, nextCol, nextDoc>>

\* VectorStore.DeleteByMetadata, best effort: a failure is logged
DeleteCollectionVectors(p, F) ==
    /\ call[p].pc = "dcVectors"
    /\ \E outcome \in Outcomes(F, {"vsDelete"}) :
         LET c == call[p]
         IN  IF engine.vectorStore /\ outcome = "ok"
             THEN /\ entries' = VSDeleteByMetadata(entries, CollectionFilter(c.colID))
                  /\ call' = [call EXCEPT ![p] = [c EXCEPT !.pc = "dcRow"]]
             ELSE /\ entries' = entries
                  /\ call' = [call EXCEPT ![p] =
                                [c EXCEPT !.pc = "dcRow", !.vsDeleteFailed = engine.vectorStore]]
    /\ UNCHANGED <<cache, engine, collections, documents, chunks, nextCol, nextDoc>>

\* Store.DeleteCollection, then the event
DeleteCollectionRow(p) ==
    /\ call[p].pc = "dcRow"
    /\ LET c == call[p]
           err == StoreDeleteCollectionErr(collections, c.colID)
       IN  IF err # NoError
           THEN /\ call' = [call EXCEPT ![p] =
                              Done([c EXCEPT !.events = EmitAfter(c, err, "collection-deleted")], err)]
                /\ UNCHANGED <<cache, collections, documents, chunks>>
           ELSE /\ collections' = Remove(collections, {c.colID})
                /\ documents' = Remove(documents, DocsOfCollection(documents, c.colID))
                /\ chunks' = Remove(chunks, ChunksOfCollection(chunks, c.colID))
                /\ call' = [call EXCEPT ![p] =
                              Done([c EXCEPT !.events = EmitAfter(c, err, "collection-deleted"),
                                             !.hooks = Notify(c, "collection-deleted")], err)]
    /\ UNCHANGED <<cache, engine, entries, nextCol, nextDoc>>

----------------------------------------------------------------------------
(* Engine.DeleteDocument *)

\* VectorStore.DeleteByMetadata, best effort: a failure is logged
DeleteDocumentStart(p, ctxTenant, docID, F) ==
    /\ call[p].pc = "idle"
    /\ \E outcome \in Outcomes(F, {"vsDelete"}) :
         LET c0 == [Idle EXCEPT !.op = "DeleteDocument", !.tenant = ctxTenant, !.docID = docID,
                                !.doc = IF docID \in DOMAIN documents
                                        THEN documents[docID] ELSE NoRow]
         IN  IF ~engine.store
             THEN /\ call' = [call EXCEPT ![p] = Done(c0, ErrNoStore)]
                  /\ entries' = entries
             ELSE IF engine.vectorStore /\ outcome = "ok"
             THEN /\ entries' = VSDeleteByMetadata(entries, DocumentFilter(docID))
                  /\ call' = [call EXCEPT ![p] = [c0 EXCEPT !.pc = "ddChunks"]]
             ELSE /\ entries' = entries
                  /\ call' = [call EXCEPT ![p] =
                                [c0 EXCEPT !.pc = "ddChunks",
                                           !.vsDeleteFailed = engine.vectorStore]]
    /\ UNCHANGED <<cache, engine, collections, documents, chunks, nextCol, nextDoc>>

\* Store.DeleteChunksByDocument
DeleteDocumentChunks(p) ==
    /\ call[p].pc = "ddChunks"
    /\ chunks' = Remove(chunks, ChunksOfDocument(chunks, call[p].docID))
    /\ call' = [call EXCEPT ![p] = [call[p] EXCEPT !.pc = "ddRow"]]
    /\ UNCHANGED <<cache, engine, collections, documents, entries, nextCol, nextDoc>>

\* Store.DeleteDocument, then the event
DeleteDocumentRow(p) ==
    /\ call[p].pc = "ddRow"
    /\ LET c == call[p]
           err == StoreDeleteDocumentErr(documents, c.docID)
       IN  IF err # NoError
           THEN /\ call' = [call EXCEPT ![p] =
                              Done([c EXCEPT !.events = EmitAfter(c, err, "document-deleted")], err)]
                /\ UNCHANGED <<cache, documents, chunks>>
           ELSE /\ documents' = Remove(documents, {c.docID})
                /\ chunks' = Remove(chunks, ChunksOfDocument(chunks, c.docID))
                /\ call' = [call EXCEPT ![p] =
                              Done([c EXCEPT !.events = EmitAfter(c, err, "document-deleted"),
                                             !.hooks = Notify(c, "document-deleted")], err)]
    /\ UNCHANGED <<cache, engine, collections, entries, nextCol, nextDoc>>

----------------------------------------------------------------------------
(* Engine.ReindexCollection *)

ReindexPreconditionErr(eng) ==
    IF ~eng.store THEN ErrNoStore
    ELSE IF ~eng.embedder THEN ErrNoEmbedder
    ELSE IF ~eng.vectorStore THEN ErrNoVectorStore
    ELSE NoError

\* the event, then Store.ListDocuments of the collection's ready documents
ReindexStart(p, ctxTenant, colID) ==
    /\ call[p].pc = "idle"
    /\ LET c0 == [Idle EXCEPT !.op = "ReindexCollection", !.tenant = ctxTenant, !.colID = colID]
           err == ReindexPreconditionErr(engine)
       IN  IF err # NoError
           THEN call' = [call EXCEPT ![p] = Done(c0, err)]
           ELSE call' = [call EXCEPT ![p] =
                           [c0 EXCEPT !.pc = "riVectors", !.before = entries,
                                      !.events = Emit(c0, "reindex-started"), !.hooks = Notify(c0, "reindex-started"),
                                      !.docs = StoreListDocuments(documents, colID, "ready")]]
    /\ UNCHANGED <<cache, engine, collections, documents, chunks, entries, nextCol, nextDoc>>

\* VectorStore.DeleteByMetadata of the collection's entries: a failure is returned
ReindexDeleteVectors(p, F) ==
    /\ call[p].pc = "riVectors"
    /\ \E outcome \in Outcomes(F, {"vsDelete"}) :
         LET c == call[p]
         IN  IF outcome = "ok"
             THEN /\ entries' = VSDeleteByMetadata(entries, CollectionFilter(c.colID))
                  /\ call' = [call EXCEPT ![p] = [c EXCEPT !.pc = "riDocuments"]]
             ELSE /\ entries' = entries
                  /\ call' = [call EXCEPT ![p] =
                                Done(c, Wrap("weave: delete vectors for reindex", ErrCollaborator))]
    /\ UNCHANGED <<cache, engine, collections, documents, chunks, nextCol, nextDoc>>

ReindexMetadata(colID, docID, ch) ==
    PutAll([k \in {"collection_id", "document_id", "tenant_id", "chunk_index"} |->
              CASE k = "collection_id" -> IDString(colID)
                [] k = "document_id"   -> IDString(docID)
                [] k = "tenant_id"     -> ch.TenantID
                [] OTHER               -> IndexString(ch.Index)],
           ch.Metadata)

\* a variant of the rebuilt entries that keeps only each document's first chunk
ReindexEntriesFirstOnly(chs, embedResults, colID, docID) ==
    [id \in {IDString(chs[1].ID)} |->
       [ID |-> id, Vector |-> embedResults[1].Vector, Content |-> chs[1].Content,
        Metadata |-> ReindexMetadata(colID, docID, chs[1])]]

ReindexEntries(chs, embedResults, colID, docID) ==
    [id \in { IDString(chs[i].ID) : i \in DOMAIN chs } |->
       LET i == CHOOSE j \in DOMAIN chs : IDString(chs[j].ID) = id
       IN  [ID |-> id, Vector |-> embedResults[i].Vector, Content |-> chs[i].Content,
            Metadata |-> ReindexMetadata(colID, docID, chs[i])]]

\* one round of the loop over the listed documents
ReindexDocument(p, F) ==
    /\ call[p].pc = "riDocuments"
    /\ call[p].docs # << >>
    /\ \E outcome \in Outcomes(F, {"reindexEmbed", "reindexEmbedShort", "reindexUpsert"}) :
         LET c == call[p]
             docID == Head(c.docs)
             chs == StoreListChunksByDocument(chunks, docID)
             next == [c EXCEPT !.docs = Tail(c.docs)]
         IN  IF chs = << >>
             THEN /\ entries' = entries
                  /\ call' = [call EXCEPT ![p] = next]
             ELSE IF outcome = "reindexEmbed"
             THEN /\ entries' = entries
                  /\ call' = [call EXCEPT ![p] =
                                Done(c, Wrap("weave: embed for reindex", ErrCollaborator))]
             ELSE IF outcome = "reindexEmbedShort"
             THEN \* fewer results than texts: embedResults[i] is out of range
                  /\ entries' = entries
                  /\ call' = [call EXCEPT ![p] = [c EXCEPT !.pc = "panic"]]
             ELSE IF outcome = "reindexUpsert"
             THEN /\ entries' = entries
                  /\ call' = [call EXCEPT ![p] =
                                Done(c, Wrap("weave: upsert for reindex", ErrCollaborator))]
             ELSE /\ entries' = VSUpsert(entries,
                                   ReindexEntries(chs, Embed(ChunkTexts(chs)), c.colID, docID))
                  /\ call' = [call EXCEPT ![p] = next]
    /\ UNCHANGED <<cache, engine, collections, documents, chunks, nextCol, nextDoc>>

\* the loop is over: the event, and the call returns
ReindexComplete(p) ==
    /\ call[p].pc = "riDocuments"
    /\ call[p].docs = << >>
    /\ call' = [call EXCEPT ![p] =
                  Done([call[p] EXCEPT !.events = Emit(call[p], "reindex-completed"), !.hooks = Notify(call[p], "reindex-completed")], NoError)]
    /\ UNCHANGED <<cache, engine, collections, documents, chunks, entries, nextCol, nextDoc>>

----------------------------------------------------------------------------
(* package retriever: the shipped retrievers *)

\* a vector-store search result as the chunk-shaped value retrieval returns
ResultOf(sr) == [Chunk |-> [Content |-> sr.Content, Metadata |-> sr.Metadata], Score |-> sr.Score]

ResultsOf(srs) == [i \in DOMAIN srs |-> ResultOf(srs[i])]

\* the search options SimilarityRetriever.Retrieve builds
SimilaritySearchOptions(opts) ==
    [TopK |-> opts.TopK,
     Filter |-> IF opts.CollectionID # Empty
                THEN Put(opts.Filter, "collection_id", opts.CollectionID) ELSE opts.Filter,
     TenantKey |-> opts.TenantKey,
     MinScore |-> IF opts.MinScore > 0 THEN opts.MinScore ELSE 0]

\* SimilarityRetriever.Retrieve: the result sequences it may return
SimilarityRetrieve(ents, query, opts) ==
    { ResultsOf(srs) : srs \in VSSearch(ents, EmbedVector(query), SimilaritySearchOptions(opts)) }

\* NewMMRRetriever: lambda in tenths
MMRLambda(lambda) == IF lambda <= 0 \/ lambda > 10 THEN 7 ELSE lambda

Max(a, b) == IF a > b THEN a ELSE b

\* the search options MMRRetriever.Retrieve builds: no MinScore
MMRSearchOptions(opts) ==
    [TopK |-> Max(opts.TopK * 3, 20),
     Filter |-> IF opts.CollectionID # Empty
                THEN Put(opts.Filter, "collection_id", opts.CollectionID) ELSE opts.Filter,
     TenantKey |-> opts.TenantKey,
     MinScore |-> 0]

\* the largest similarity, above 0, of a candidate to the selected ones
RECURSIVE MaxSim(_, _, _, _)
MaxSim(cands, selected, i, k) ==
    IF k > Len(selected) THEN 0
    ELSE Max(cosineSimilarity(cands[i].Vector, cands[selected[k]].Vector),
             MaxSim(cands, selected, i, k + 1))

\* ten times the MMR score of candidate i
MMRScore(cands, selected, i, lambda) ==
    lambda * cands[i].Score - (10 - lambda) * MaxSim(cands, selected, i, 1)

\* the first unused candidate of the best MMR score
MMRBest(cands, selected, lambda) ==
    CHOOSE i \in DOMAIN cands \ Range(selected) :
        \A j \in DOMAIN cands \ Range(selected) :
            \/ MMRScore(cands, selected, j, lambda) < MMRScore(cands, selected, i, lambda)
            \/ (MMRScore(cands, selected, j, lambda) = MMRScore(cands, selected, i, lambda)
                /\ i <= j)

RECURSIVE MMRSelect(_, _, _, _)
MMRSelect(cands, selected, topK, lambda) ==
    IF ~(Len(selected) < topK /\ Len(selected) < Len(cands)) THEN selected
    ELSE MMRSelect(cands, Append(selected, MMRBest(cands, selected, lambda)), topK, lambda)

\* MMRRetriever.Retrieve: the selected candidates in selection order, each
\* with its relevance score
MMRRetrieve(ents, query, opts, lambda) ==
    { LET selected == MMRSelect(cands, << >>, opts.TopK, lambda)
      IN  [i \in DOMAIN selected |-> ResultOf(cands[selected[i]])] :
      cands \in VSSearch(ents, EmbedVector(query), MMRSearchOptions(opts)) }

\* the Reranker collaborator: a score per document
RerankScore(query, doc) == ScoreOne \div (1 + Len(doc))

\* the sorted orders of a sequence that may hold equal results: by position
RECURSIVE SortedPositions(_, _)
SortedPositions(rs, P) ==
    IF P = {} THEN { << >> }
    ELSE UNION { { <<rs[i]>> \o t : t \in SortedPositions(rs, P \ {i}) } :
                 i \in { x \in P : \A y \in P : rs[y].Score <= rs[x].Score } }

\* RerankerRetriever.Retrieve over the similarity retriever
RerankerRetrieve(ents, query, opts) ==
    UNION { IF candidates = << >> THEN { << >> }
            ELSE LET rescored == [i \in DOMAIN candidates |->
                                    [candidates[i] EXCEPT
                                       !.Score = RerankScore(query, candidates[i].Chunk.Content)]]
                 IN  { IF opts.TopK > 0 THEN Truncate(s, opts.TopK) ELSE s :
                       s \in SortedPositions(rescored, DOMAIN rescored) } :
            candidates \in SimilarityRetrieve(ents, query,
                                              [opts EXCEPT !.TopK = Max(opts.TopK * 3, 20)]) }

\* reciprocal rank fusion: the score a list of results gives to a content
RECURSIVE RRFScore(_, _, _)
RRFScore(results, key, i) ==
    IF i > Len(results) THEN 0
    ELSE (IF results[i].Chunk.Content = key THEN ScoreOne \div (60 + i) ELSE 0)
         + RRFScore(results, key, i + 1)

\* the first result of the lists, in their order, that has the content
FirstWithKey(lists, key) ==
    LET l == CHOOSE n \in DOMAIN lists :
                /\ \E i \in DOMAIN lists[n] : lists[n][i].Chunk.Content = key
                /\ \A m \in 1..(n - 1) : \A i \in DOMAIN lists[m] : lists[m][i].Chunk.Content # key
        i == CHOOSE n \in DOMAIN lists[l] :
                /\ lists[l][n].Chunk.Content = key
                /\ \A m \in 1..(n - 1) : lists[l][m].Chunk.Content # key
    IN  lists[l][i]

RECURSIVE SumRRF(_, _, _)
SumRRF(lists, key, n) ==
    IF n > Len(lists) THEN 0 ELSE RRFScore(lists[n], key, 1) + SumRRF(lists, key, n + 1)

\* the fused results of the sub-retrievers' lists, before sorting
Fused(lists) ==
    { [FirstWithKey(lists, key) EXCEPT !.Score = SumRRF(lists, key, 1)] :
      key \in UNION { { lists[n][i].Chunk.Content : i \in DOMAIN lists[n] } : n \in DOMAIN lists } }

\* HybridRetriever.Retrieve over the similarity and the MMR retriever
HybridRetrieve(ents, query, opts, lambda) ==
    UNION { { IF opts.TopK > 0 THEN Truncate(s, opts.TopK) ELSE s :
              s \in SortedByScore(Fused(<<first, second>>)) } :
            first \in SimilarityRetrieve(ents, query, opts),
            second \in MMRRetrieve(ents, query, opts, lambda) }

\* Retriever.Retrieve of the injected retriever
RetrieverRetrieve(retriever, ents, query, opts) ==
    CASE retriever.kind = "similarity" -> SimilarityRetrieve(ents, query, opts)
      [] retriever.kind = "mmr"        -> MMRRetrieve(ents, query, opts, MMRLambda(retriever.lambda))
      [] retriever.kind = "reranker"   -> RerankerRetrieve(ents, query, opts)
      [] OTHER -> HybridRetrieve(ents, query, opts, MMRLambda(retriever.lambda))

----------------------------------------------------------------------------
(* Engine.Retrieve *)

\* the RetrieveParams after the options opts of a call are applied: TopK
\* starts at the configured default and WithTopK(k) overwrites it with k
ApplyOptions(eng, opts) ==
    [CollectionID |-> opts.CollectionID, TenantID |-> opts.TenantID,
     TopK |-> IF opts.WithTopK THEN opts.TopK ELSE eng.defaultTopK,
     MinScore |-> opts.MinScore]

\* a variant of the parameters that never resolves the tenant from the context
RetrieveParamsNoContext(given, ctxTenant) == given

\* the RetrieveParams once the options are applied and the tenant resolved:
\* given holds what the options set, TopK starting at the configured default
RetrieveParams(given, ctxTenant) ==
    [given EXCEPT !.TenantID = IF given.TenantID = Empty THEN ctxTenant ELSE given.TenantID]

\* the filter map seeded with the collection and the tenant where non-empty
RetrieveFilter(params) ==
    [k \in (IF params.CollectionID # Empty THEN {"collection_id"} ELSE {})
           \cup (IF params.TenantID # Empty THEN {"tenant_id"} ELSE {}) |->
       IF k = "collection_id" THEN params.CollectionID ELSE params.TenantID]

RetrieverOptions(params) ==
    [CollectionID |-> params.CollectionID, TenantKey |-> params.TenantID,
     TopK |-> params.TopK, MinScore |-> params.MinScore, Filter |-> RetrieveFilter(params)]

DirectSearchOptions(params) ==
    [TopK |-> params.TopK, Filter |-> RetrieveFilter(params),
     TenantKey |-> params.TenantID, MinScore |-> params.MinScore]

\* the result sequences Retrieve may return
RetrieveResults(eng, ents, query, params) ==
    IF eng.retriever.kind # "none"
    THEN RetrieverRetrieve(eng.retriever, ents, query, RetrieverOptions(params))
    ELSE { ResultsOf(srs) : srs \in VSSearch(ents, EmbedVector(query), DirectSearchOptions(params)) }

ErrNotConfigured == <<"weave: no retriever or embedder+vectorstore configured">>

\* the failures of Retrieve's collaborators: the injected retriever, the
\* embedder and the vector store's search
RetrieveFaults == {"retrieve", "embedQuery", "search"}

\* the message Retrieve wraps a collaborator's error in
RetrieveErrorMessage(outcome) ==
    CASE outcome = "retrieve"   -> "weave: retrieve"
      [] outcome = "embedQuery" -> "weave: embed query"
      [] OTHER                  -> "weave: search"

\* a variant of the closing event that reports every outcome as completed
RetrieveClosingEventCompleted(err) == "retrieval-completed"

\* the event Retrieve emits before it returns
RetrieveClosingEvent(err) ==
    IF err # NoError THEN "retrieval-failed" ELSE "retrieval-completed"

Retrieve(p, ctxTenant, query, given, F) ==
    /\ call[p].pc = "idle"
    /\ LET params == RetrieveParams(given, ctxTenant)
           c0 == [Idle EXCEPT !.op = "Retrieve", !.tenant = ctxTenant, !.content = query,
                              !.given = given, !.params = params]
           c1 == [c0 EXCEPT !.events = Emit(c0, "retrieval-started"),
                            !.hooks = Notify(c0, "retrieval-started")]
           close(c, err) ==
               Done([c EXCEPT !.events = Emit(c, RetrieveClosingEvent(err)),
                              !.hooks = Notify(c, RetrieveClosingEvent(err))], err)
       IN  IF engine.retriever.kind = "none" /\ (~engine.embedder \/ ~engine.vectorStore)
           THEN call' = [call EXCEPT ![p] = Done(c0, ErrNotConfigured)]
           ELSE \E outcome \in Outcomes(F, IF engine.retriever.kind # "none"
                                           THEN {"retrieve"} ELSE {"embedQuery", "search"}) :
                  IF outcome # "ok"
                  THEN call' = [call EXCEPT ![p] =
                                  close(c1, Wrap(RetrieveErrorMessage(outcome), ErrCollaborator))]
                  ELSE \E results \in RetrieveResults(engine, entries, query, params) :
                         call' = [call EXCEPT ![p] =
                                    close([c1 EXCEPT !.scored = results], NoError)]
    /\ UNCHANGED <<cache, engine, collections, documents, chunks, entries, nextCol, nextDoc>>

----------------------------------------------------------------------------
(* The engine's reads of the metadata store *)

\* the offset and the limit of a list filter
Paginate(rows, offset, limit) ==
    LET from == IF offset > 0 /\ offset < Len(rows)
                THEN SubSeq(rows, offset + 1, Len(rows)) ELSE rows
    IN  IF ~(offset > 0 /\ offset < Len(rows)) /\ offset >= Len(rows) THEN << >>
        ELSE IF limit > 0 /\ limit < Len(from) THEN SubSeq(from, 1, limit) ELSE from

Rows(table, ids) == [i \in DOMAIN ids |-> table[ids[i]]]

GetCollection(p, ctxTenant, colID) ==
    /\ call[p].pc = "idle"
    /\ LET c0 == [Idle EXCEPT !.op = "GetCollection", !.tenant = ctxTenant, !.colID = colID]
           err == IF ~engine.store THEN ErrNoStore ELSE StoreGetCollectionErr(collections, colID)
       IN  IF err # NoError
           THEN call' = [call EXCEPT ![p] = Done(c0, err)]
           ELSE call' = [call EXCEPT ![p] = Done([c0 EXCEPT !.col = collections[colID]], NoError)]
    /\ UNCHANGED <<cache, engine, collections, documents, chunks, entries, nextCol, nextDoc>>

\* Store.ListCollections: ordered by created_at, collections being created in
\* the order their ids are generated
ListCollections(p, ctxTenant, filter) ==
    /\ call[p].pc = "idle"
    /\ LET c0 == [Idle EXCEPT !.op = "ListCollections", !.tenant = ctxTenant]
       IN  IF ~engine.store
           THEN call' = [call EXCEPT ![p] = Done(c0, ErrNoStore)]
           ELSE call' = [call EXCEPT ![p] =
                           Done([c0 EXCEPT !.list =
                                   Paginate(Rows(collections, SortedIDs(DOMAIN collections)),
                                            filter.Offset, filter.Limit)], NoError)]
    /\ UNCHANGED <<cache, engine, collections, documents, chunks, entries, nextCol, nextDoc>>

CollectionStats(p, ctxTenant, colID) ==
    /\ call[p].pc = "idle"
    /\ LET c0 == [Idle EXCEPT !.op = "CollectionStats", !.tenant = ctxTenant, !.colID = colID]
           err == IF ~engine.store THEN ErrNoStore ELSE StoreGetCollectionErr(collections, colID)
       IN  IF err # NoError
           THEN call' = [call EXCEPT ![p] = Done(c0, err)]
           ELSE call' = [call EXCEPT ![p] =
                           Done([c0 EXCEPT !.col = collections[colID],
                                           !.result =
                                             [CollectionID |-> colID,
                                              CollectionName |-> collections[colID].Name,
                                              DocumentCount |-> StoreCountDocuments(documents, colID),
                                              ChunkCount |-> StoreCountChunks(chunks, colID)]],
                                NoError)]
    /\ UNCHANGED <<cache, engine, collections, documents, chunks, entries, nextCol, nextDoc>>

GetDocument(p, ctxTenant, docID) ==
    /\ call[p].pc = "idle"
    /\ LET c0 == [Idle EXCEPT !.op = "GetDocument", !.tenant = ctxTenant, !.docID = docID]
           err == IF ~engine.store THEN ErrNoStore
                  ELSE IF docID \in DOMAIN documents THEN NoError ELSE ErrDocumentNotFound
       IN  IF err # NoError
           THEN call' = [call EXCEPT ![p] = Done(c0, err)]
           ELSE call' = [call EXCEPT ![p] = Done([c0 EXCEPT !.doc = documents[docID]], NoError)]
    /\ UNCHANGED <<cache, engine, collections, documents, chunks, entries, nextCol, nextDoc>>

ListDocuments(p, ctxTenant, filter) ==
    /\ call[p].pc = "idle"
    /\ LET c0 == [Idle EXCEPT !.op = "ListDocuments", !.tenant = ctxTenant,
                              !.colID = filter.CollectionID]
       IN  IF ~engine.store
           THEN call' = [call EXCEPT ![p] = Done(c0, ErrNoStore)]
           ELSE call' = [call EXCEPT ![p] =
                           Done([c0 EXCEPT !.list =
                                   Paginate(Rows(documents,
                                                 StoreListDocuments(documents, filter.CollectionID,
                                                                    filter.State)),
                                            filter.Offset, filter.Limit)], NoError)]
    /\ UNCHANGED <<cache, engine, collections, documents, chunks, entries, nextCol, nextDoc>>

----------------------------------------------------------------------------
(* The engine under test and its callers *)

\* weave.NewEngine with the in-memory stores, the sliding chunker, the HTML
\* loader and no injected retriever
DefaultEngine ==
    [store |-> TRUE, vectorStore |-> TRUE, embedder |-> TRUE, chunker |-> TRUE,
     loader |-> TRUE, retriever |-> [kind |-> "none", lambda |-> 0],
     extensions |-> << >>, defaultTopK |-> DefaultTopK, backend |-> "memory",
     chunkerKind |-> "sliding"]

CollectionIDs == { NewCollectionID(i) : i \in 1..MaxCols }

DocumentIDs == { NewDocumentID(i) : i \in 1..MaxDocs }

CollectionInputs ==
    [ID : {NilID}, Name : Names, TenantID : {Empty},
     ChunkSize : ChunkSizeInputs, ChunkOverlap : {0}]

IngestInputs == [CollectionID : CollectionIDs, Content : Contents, SourceType : SourceTypes]

InitStores ==
    /\ cache = EmptyMap
    /\ collections = EmptyMap
    /\ documents = EmptyMap
    /\ chunks = EmptyMap
    /\ entries = EmptyMap
    /\ nextCol = 0
    /\ nextDoc = 0

Init ==
    /\ engine = DefaultEngine
    /\ InitStores
    /\ call = [p \in AllProcs |-> Idle]

\* the steps of the calls under way, with the faults F of the collaborators
Steps(p, F) ==
    \/ IngestCreateDocument(p)
    \/ IngestMarkProcessing(p, F)
    \/ IngestProcess(p, F)
    \/ IngestStoreChunks(p, F)
    \/ IngestUpsert(p, F)
    \/ IngestMarkReady(p, F)
    \/ IngestFail(p, F)
    \/ DeleteCollectionDocuments(p)
    \/ DeleteCollectionVectors(p, F)
    \/ DeleteCollectionRow(p)
    \/ DeleteDocumentChunks(p)
    \/ DeleteDocumentRow(p)
    \/ ReindexDeleteVectors(p, F)
    \/ ReindexDocument(p, F)
    \/ ReindexComplete(p)
    \/ Return(p)

\* the calls a caller may start: callers of the tenants T, creating the
\* collections CI and ingesting the inputs II
Calls(p, F, T, CI, II) ==
    \/ \E t \in T, in \in CI : CreateCollection(p, t, in)
    \/ \E t \in T, in \in II : IngestStart(p, t, in)
    \/ \E t \in T, colID \in CollectionIDs : DeleteCollectionStart(p, t, colID)
    \/ \E t \in T, docID \in DocumentIDs : DeleteDocumentStart(p, t, docID, F)
    \/ \E t \in T, colID \in CollectionIDs : ReindexStart(p, t, colID)

\* one caller of one tenant, one call at a time, every collaborator fault possible
Next ==
    \E p \in {"p1"} :
        \/ Calls(p, AllFaults, {<<"A">>}, CollectionInputs, IngestInputs)
        \/ Steps(p, AllFaults)

Spec == Init /\ [][Next]_vars

----------------------------------------------------------------------------
(* Queries: the engine with each retriever, callers of two tenants *)

\* the retrievers an engine may be given: none, or a shipped one; lambda is
\* NewMMRRetriever's argument in tenths
Retrievers ==
    { [kind |-> "none", lambda |-> 0], [kind |-> "similarity", lambda |-> 0],
      [kind |-> "mmr", lambda |-> 0], [kind |-> "mmr", lambda |-> 3],
      [kind |-> "reranker", lambda |-> 0], [kind |-> "hybrid", lambda |-> 0] }

TopKInputs == {DefaultTopK, 1}

MinScoreInputs == {0 - (ScoreOne \div 2), 0, (9 * ScoreOne) \div 10}

\* what the options of a Retrieve call may set
RetrieveInputs ==
    [CollectionID : {Empty} \cup CollectionIDs, TenantID : {Empty} \cup Tenants,
     TopK : TopKInputs, MinScore : {0}]
    \cup [CollectionID : {Empty} \cup CollectionIDs, TenantID : {Empty} \cup Tenants,
          TopK : {DefaultTopK}, MinScore : MinScoreInputs]

\* the options of the queries: every collection or the first one, the
\* tenant of the context or tenant B
QueryRetrieveInputs ==
    { given \in RetrieveInputs :
        /\ given.CollectionID \in {Empty, NewCollectionID(1)}
        /\ given.TenantID \in {Empty, <<"B">>} }

\* the collections and the documents of the queried engine: two chunks a document
QueryCollectionInputs == { in \in CollectionInputs : in.ChunkSize = 1 }

QueryIngestInputs == { in \in IngestInputs : in.Content = <<"a", "b">> /\ in.SourceType = "" }

ListCollectionFilters == [Offset : {0, 1}, Limit : {0, 1}]

ListDocumentFilters ==
    [CollectionID : {NilID} \cup CollectionIDs, State : {"", "ready"},
     Offset : {0, 1}, Limit : {0, 1}]

InitQuery ==
    /\ engine \in { [DefaultEngine EXCEPT !.retriever = r] : r \in Retrievers }
    /\ InitStores
    /\ call = [p \in AllProcs |-> Idle]

Reads(p, T) ==
    \/ \E t \in T, q \in Queries, given \in QueryRetrieveInputs : Retrieve(p, t, q, given, NoFaults)
    \/ \E t \in T, colID \in CollectionIDs : GetCollection(p, t, colID)
    \/ \E t \in T, filter \in ListCollectionFilters : ListCollections(p, t, filter)
    \/ \E t \in T, colID \in CollectionIDs : CollectionStats(p, t, colID)
    \/ \E t \in T, docID \in DocumentIDs : GetDocument(p, t, docID)
    \/ \E t \in T, filter \in ListDocumentFilters : ListDocuments(p, t, filter)

\* the steps of the calls under way when no collaborator fails
StepsNoFault(p) ==
    \/ IngestCreateDocument(p)
    \/ IngestMarkProcessing(p, NoFaults)
    \/ IngestProcess(p, NoFaults)
    \/ IngestStoreChunks(p, NoFaults)
    \/ IngestUpsert(p, NoFaults)
    \/ IngestMarkReady(p, NoFaults)
    \/ DeleteCollectionDocuments(p)
    \/ DeleteCollectionVectors(p, NoFaults)
    \/ DeleteCollectionRow(p)
    \/ DeleteDocumentChunks(p)
    \/ DeleteDocumentRow(p)
    \/ ReindexDeleteVectors(p, NoFaults)
    \/ ReindexDocument(p, NoFaults)
    \/ ReindexComplete(p)
    \/ Return(p)

\* one caller at a time, of either tenant, no collaborator fault
NextQuery ==
    \E p \in {"p1"} :
        \/ Calls(p, NoFaults, Tenants, QueryCollectionInputs, QueryIngestInputs)
        \/ Reads(p, Tenants)
        \/ StepsNoFault(p)

SpecQuery == InitQuery /\ [][NextQuery]_vars

----------------------------------------------------------------------------
(* Extensions: the engine with registered extensions, some of whose hooks fail *)

HookEvents ==
    {"collection-created", "collection-deleted", "ingest-started", "ingest-chunked",
     "ingest-embedded", "ingest-completed", "ingest-failed", "retrieval-started",
     "retrieval-completed", "retrieval-failed", "document-deleted", "reindex-started",
     "reindex-completed"}

\* an extension: its name, the hooks it implements, the hooks of it that
\* return an error
Extension(name, hooks, fails) == [name |-> name, hooks |-> hooks, fails |-> fails]

\* the extensions registered with the engine, in registration order
Registries ==
    { << >>,
      <<Extension("audit", HookEvents, {}),
        Extension("metrics", {"ingest-started", "ingest-completed", "ingest-failed"},
                  {"ingest-started", "ingest-completed", "ingest-failed"})>>,
      <<Extension("strict", HookEvents, HookEvents),
        Extension("audit", HookEvents, {})>> }

HookRetrieveInputs ==
    { given \in RetrieveInputs :
        given.CollectionID = Empty /\ given.TenantID = Empty /\ given.MinScore = 0 }

InitHooks ==
    /\ engine \in { [DefaultEngine EXCEPT !.extensions = r] : r \in Registries }
    /\ InitStores
    /\ call = [p \in AllProcs |-> Idle]

\* one caller, every collaborator fault possible, every event of the engine
NextHooks ==
    \E p \in {"p1"} :
        \/ Calls(p, AllFaults, {<<"A">>}, QueryCollectionInputs, QueryIngestInputs)
        \/ \E q \in Queries, given \in HookRetrieveInputs :
              Retrieve(p, <<"A">>, q, given, RetrieveFaults)
        \/ Steps(p, AllFaults)

SpecHooks == InitHooks /\ [][NextHooks]_vars

----------------------------------------------------------------------------
(* Batches: IngestBatch over up to MaxBatch inputs, every ingest fault possible *)

MaxBatch == 2

BatchIngestInputs ==
    { in \in IngestInputs : in.SourceType = "" /\ in.Content \in {<< >>, <<"a">>, <<"a", "b">>} }

BatchInputs ==
    UNION { [1..n -> BatchIngestInputs] : n \in 0..MaxBatch }

NextBatch ==
    \E p \in {"p1"} :
        \/ \E in \in QueryCollectionInputs : CreateCollection(p, <<"A">>, in)
        \/ \E inputs \in BatchInputs : IngestBatchStart(p, <<"A">>, inputs)
        \/ IngestBatchLoop(p)
        \/ IngestBatchNext(p)
        \/ IngestCreateDocument(p)
        \/ IngestMarkProcessing(p, IngestFaults)
        \/ IngestProcess(p, IngestFaults)
        \/ IngestStoreChunks(p, IngestFaults)
        \/ IngestUpsert(p, IngestFaults)
        \/ IngestMarkReady(p, IngestFaults)
        \/ IngestFail(p, IngestFaults)
        \/ Return(p)

SpecBatch == Init /\ [][NextBatch]_vars

----------------------------------------------------------------------------
(* Configurations: engines built without some of their collaborators *)

Engines ==
    { [DefaultEngine EXCEPT !.store = s, !.vectorStore = v, !.embedder = e, !.chunker = k] :
        s \in BOOLEAN, v \in BOOLEAN, e \in BOOLEAN, k \in BOOLEAN }

InitConfig ==
    /\ engine \in Engines
    /\ InitStores
    /\ call = [p \in AllProcs |-> Idle]

NextConfig ==
    \E p \in {"p1"} :
        \/ \E in \in QueryCollectionInputs : CreateCollection(p, <<"A">>, in)
        \/ \E in \in IngestInputs : IngestStart(p, <<"A">>, in)
        \/ IngestCreateDocument(p)
        \/ IngestMarkProcessing(p, IngestFaults)
        \/ IngestProcess(p, IngestFaults)
        \/ IngestStoreChunks(p, IngestFaults)
        \/ IngestUpsert(p, IngestFaults)
        \/ IngestMarkReady(p, IngestFaults)
        \/ IngestFail(p, IngestFaults)
        \/ Return(p)

SpecConfig == InitConfig /\ [][NextConfig]_vars

----------------------------------------------------------------------------
(* Reindexing: collections populated by Ingest alone, every ingest fault
   possible, and reindexed to completion; the engine with each retriever *)

ReindexIngestInputs ==
    { in \in IngestInputs : in.Content \in {<<" ">>, <<"a", "b">>} /\ in.SourceType = "" }

NextReindex ==
    \E p \in {"p1"} :
        \/ \E in \in QueryCollectionInputs : CreateCollection(p, <<"A">>, in)
        \/ \E in \in ReindexIngestInputs : IngestStart(p, <<"A">>, in)
        \/ \E colID \in CollectionIDs : ReindexStart(p, <<"A">>, colID)
        \/ IngestCreateDocument(p)
        \/ IngestMarkProcessing(p, IngestFaults)
        \/ IngestProcess(p, IngestFaults)
        \/ IngestStoreChunks(p, IngestFaults)
        \/ IngestUpsert(p, IngestFaults)
        \/ IngestMarkReady(p, IngestFaults)
        \/ IngestFail(p, IngestFaults)
        \/ ReindexDeleteVectors(p, NoFaults)
        \/ ReindexDocument(p, NoFaults)
        \/ ReindexComplete(p)
        \/ Return(p)

SpecReindex == InitQuery /\ [][NextReindex]_vars

----------------------------------------------------------------------------
(* Retrieval: engines with each retriever or none, with and without an
   embedder, with the default configuration or a default_top_k of 1; the
   collaborators of Retrieve may fail *)

RetrieveEngines ==
    { [DefaultEngine EXCEPT !.retriever = r, !.embedder = e, !.defaultTopK = k] :
        r \in Retrievers, e \in BOOLEAN, k \in {DefaultTopK, 1} }

\* the options of a Retrieve call: WithCollection or not, WithTopK(k) or not
RetrieveOptionInputs ==
    [CollectionID : {Empty} \cup CollectionIDs, TenantID : {Empty},
     WithTopK : BOOLEAN, TopK : {0, 1}, MinScore : {0}]

InitRetrieve ==
    /\ engine \in RetrieveEngines
    /\ InitStores
    /\ call = [p \in AllProcs |-> Idle]

NextRetrieve ==
    \E p \in {"p1"} :
        \/ \E in \in QueryCollectionInputs : CreateCollection(p, <<"A">>, in)
        \/ \E in \in QueryIngestInputs : IngestStart(p, <<"A">>, in)
        \/ \E q \in Queries, opts \in RetrieveOptionInputs :
              Retrieve(p, <<"A">>, q, ApplyOptions(engine, opts), RetrieveFaults)
        \/ IngestCreateDocument(p)
        \/ IngestMarkProcessing(p, NoFaults)
        \/ IngestProcess(p, NoFaults)
        \/ IngestStoreChunks(p, NoFaults)
        \/ IngestUpsert(p, NoFaults)
        \/ IngestMarkReady(p, NoFaults)
        \/ Return(p)

SpecRetrieve == InitRetrieve /\ [][NextRetrieve]_vars

----------------------------------------------------------------------------
(* Backends: the engine over each metadata store, no collaborator failing *)

InitStore ==
    /\ engine \in { [DefaultEngine EXCEPT !.backend = b] : b \in Backends }
    /\ InitStores
    /\ call = [p \in AllProcs |-> Idle]

NextStore ==
    \E p \in {"p1"} :
        \/ \E in \in CollectionInputs : CreateCollection(p, <<"A">>, in)
        \/ \E in \in IngestInputs : IngestStart(p, <<"A">>, in)
        \/ IngestCreateDocument(p)
        \/ IngestMarkProcessing(p, NoFaults)
        \/ IngestProcess(p, NoFaults)
        \/ IngestStoreChunks(p, NoFaults)
        \/ IngestUpsert(p, NoFaults)
        \/ IngestMarkReady(p, NoFaults)
        \/ Return(p)

SpecStore == InitStore /\ [][NextStore]_vars

----------------------------------------------------------------------------
(* Properties of ingestion, deletion and reindexing, checked under Spec *)

\* the calls that have returned and whose results the caller still holds
Returned(op) == { p \in AllProcs : call[p].pc = "done" /\ call[p].op = op }

EntriesOfDocument(docID) ==
    { e \in DOMAIN entries : MetaGet(entries[e].Metadata, "document_id") = IDString(docID) }

EntriesOfCollection(colID) ==
    { e \in DOMAIN entries : MetaGet(entries[e].Metadata, "collection_id") = IDString(colID) }

Count(seq, x) == Cardinality({ i \in DOMAIN seq : seq[i] = x })

\* C1: an Ingest call that returns state ready returns a chunk_count equal to
\* the number of chunk rows persisted for its document and to the number of
\* vector entries whose metadata document_id is the document's id.
C1_ReadyCountsAgree ==
    \A p \in Returned("Ingest") :
        call[p].result.State = "ready" =>
            /\ call[p].result.ChunkCount =
                   Cardinality(ChunksOfDocument(chunks, call[p].result.DocumentID))
            /\ call[p].result.ChunkCount =
                   Cardinality(EntriesOfDocument(call[p].result.DocumentID))

\* an Ingest call has returned ready with two chunks
C1_Witness ==
    \E p \in Returned("Ingest") :
        /\ call[p].result.State = "ready"
        /\ call[p].result.ChunkCount = 2
        /\ Cardinality(EntriesOfDocument(call[p].result.DocumentID)) = 2

\* the documents of the call's collection that hold the call's content
SameContent(p) ==
    { d \in DOMAIN documents :
        /\ documents[d].CollectionID = call[p].colID
        /\ documents[d].ContentHash = ContentHash(call[p].content) }

\* C2: an Ingest of a content its collection already holds returns the
\* duplicate-document error and creates no second document: the collection
\* still holds one document of that content.
C2_SecondIngestIsDuplicate ==
    \A p \in Returned("Ingest") :
        SameContent(p) \ {call[p].docID} # {} =>
            /\ ErrorIs(call[p].err, ErrDuplicateDocument)
            /\ call[p].docID \notin DOMAIN documents
            /\ Cardinality(SameContent(p)) = 1

\* the second Ingest of a content has returned the duplicate-document error,
\* its collection holding one document
C2_Witness ==
    \E p \in Returned("Ingest") :
        /\ ErrorIs(call[p].err, ErrDuplicateDocument)
        /\ Cardinality(SameContent(p)) = 1
        /\ StoreCountDocuments(documents, call[p].colID) = 1

\* Store.Search with the filter {collection_id: id} finds nothing
SearchOfCollectionIsEmpty(colID) ==
    \A q \in Queries :
        VSSearch(entries, EmbedVector(q),
                 [TopK |-> 0, Filter |-> CollectionFilter(colID), TenantKey |-> Empty,
                  MinScore |-> 0]) = { << >> }

MetadataOfCollectionIsGone(colID) ==
    /\ StoreGetCollectionErr(collections, colID) = ErrCollectionNotFound
    /\ StoreListDocuments(documents, colID, "") = << >>
    /\ StoreCountChunks(chunks, colID) = 0

FailedEarly ==
    { p \in Returned("Ingest") :
        call[p].ingestErr \in { ErrCollaborator, Wrap("chunk", ErrCollaborator),
                                Wrap("embed", ErrCollaborator) } }

C5_ReindexRepairs ==
    \A p \in Returned("ReindexCollection") :
        call[p].err = NoError =>
            \A c \in ChunksOfCollection(chunks, call[p].colID) : c \in DOMAIN entries

\* no call is under way
Quiescent == \A p \in AllProcs : call[p].pc \in {"idle", "done"}

\* C6, as the specification states it: while no call is under way, every ready
\* document has chunk_count >= 1 and each of its chunks has a vector entry,
\* whatever content was ingested.
C6_ReadyHasChunks ==
    Quiescent =>
        \A d \in DOMAIN documents :
            documents[d].State = "ready" =>
                /\ documents[d].ChunkCount >= 1
                /\ \A c \in ChunksOfDocument(chunks, d) : c \in DOMAIN entries

\* C7: every document row in state failed carries a non-empty error,
\* whichever stage failed.
C7_FailedHasError ==
    \A d \in DOMAIN documents : documents[d].State = "failed" => documents[d].Error # Empty

\* two documents have failed, one storing its chunks and one upserting its vectors
C7_Witness ==
    /\ \E d \in DOMAIN documents :
          /\ documents[d].State = "failed"
          /\ documents[d].Error = ErrorString(Wrap("store chunks", ErrCollaborator))
    /\ \E d \in DOMAIN documents :
          /\ documents[d].State = "failed"
          /\ documents[d].Error = ErrorString(Wrap("upsert vectors", ErrCollaborator))

----------------------------------------------------------------------------
(* Properties of tenancy and retrieval, checked under SpecQuery *)

StampedTenants(p) ==
    { MetaGet(call[p].scored[i].Chunk.Metadata, "tenant_id") : i \in DOMAIN call[p].scored }

Written(old, new) == { k \in DOMAIN new : k \notin DOMAIN old \/ new[k] # old[k] }

Deleted(old, new) == DOMAIN old \ DOMAIN new

\* a step of a call with tenant t in its context touches and returns only
\* rows of tenant t
TenantScopedStep(p) ==
    LET t == call'[p].tenant
        c == call'[p]
    IN  (call'[p] # call[p] /\ c.pc # "idle") =>
            /\ \A k \in Deleted(collections, collections') : collections[k].TenantID = t
            /\ \A k \in Deleted(documents, documents') : documents[k].TenantID = t
            /\ \A k \in Deleted(chunks, chunks') : chunks[k].TenantID = t
            /\ \A k \in Deleted(entries, entries') :
                  MetaGet(entries[k].Metadata, "tenant_id") = t
            /\ \A k \in Written(documents, documents') :
                  /\ documents'[k].TenantID = t
                  /\ documents'[k].CollectionID \in DOMAIN collections =>
                         collections[documents'[k].CollectionID].TenantID = t
            /\ \A k \in Written(chunks, chunks') : chunks'[k].TenantID = t
            /\ \A k \in Written(entries, entries') :
                  MetaGet(entries'[k].Metadata, "tenant_id") = t
            /\ (c.pc = "done" /\ c.err = NoError) =>
                  /\ c.op \in {"GetCollection", "CollectionStats"} => c.col.TenantID = t
                  /\ c.op = "GetDocument" => c.doc.TenantID = t
                  /\ c.op \in {"ListCollections", "ListDocuments"} =>
                         \A i \in DOMAIN c.list : c.list[i].TenantID = t

\* C9, as the documentation states it: every engine operation is scoped to the
\* tenant of its context: it returns, changes, deletes and adds only data of
\* that tenant.
C9_TenantScoped == [][\A p \in AllProcs : TenantScopedStep(p)]_vars

\* C10, as the specification states it: Retrieve returns results strictly
\* sorted by descending score, at most top_k of them, each of a score of at
\* least min_score, on the direct path and with each shipped retriever.
C10_SortedBounded ==
    \A p \in Returned("Retrieve") :
        call[p].err = NoError =>
            /\ \A i \in DOMAIN call[p].scored : \A j \in DOMAIN call[p].scored :
                  i < j => call[p].scored[i].Score > call[p].scored[j].Score
            /\ Len(call[p].scored) <= call[p].params.TopK
            /\ \A i \in DOMAIN call[p].scored :
                  call[p].scored[i].Score >= call[p].params.MinScore

----------------------------------------------------------------------------
(* Properties of the events, checked under Spec *)

Positions(evs, e) == { i \in DOMAIN evs : evs[i] = e }

\* every a of evs comes before every b of evs
Precedes(evs, a, b) == \A i \in Positions(evs, a) : \A j \in Positions(evs, b) : i < j

TerminalIngestEvents == {"ingest-completed", "ingest-failed"}

\* C11: an Ingest call that persisted its document emits ingest-started
\* first, ingest-chunked before ingest-embedded where both are emitted, both
\* before the terminal event, and exactly one of ingest-completed and
\* ingest-failed, as its last event, once it has returned and none before.
C11_IngestEventOrder ==
    \A p \in AllProcs :
        (call[p].op = "Ingest" /\ call[p].docID # NilID) =>
            LET evs == call[p].events
            IN  /\ evs # << >>
                /\ evs[1] = "ingest-started"
                /\ Count(evs, "ingest-started") = 1
                /\ Count(evs, "ingest-chunked") <= 1
                /\ Count(evs, "ingest-embedded") <= 1
                /\ Precedes(evs, "ingest-chunked", "ingest-embedded")
                /\ \A t \in TerminalIngestEvents :
                      /\ Precedes(evs, "ingest-chunked", t)
                      /\ Precedes(evs, "ingest-embedded", t)
                /\ Count(evs, "ingest-completed") + Count(evs, "ingest-failed") =
                       (IF call[p].pc = "done" THEN 1 ELSE 0)
                /\ call[p].pc = "done" => evs[Len(evs)] \in TerminalIngestEvents

\* an Ingest that failed embedding has returned: started, chunked, failed
C11_Witness ==
    \E p \in Returned("Ingest") :
        call[p].events = <<"ingest-started", "ingest-chunked", "ingest-failed">>

----------------------------------------------------------------------------
(* Properties of the extension hooks, checked under SpecHooks *)

\* the extensions of exts from position i on that implement the hook of event
RECURSIVE ImplementingFrom(_, _, _)
ImplementingFrom(exts, event, i) ==
    IF i > Len(exts) THEN << >>
    ELSE (IF event \in exts[i].hooks THEN <<exts[i]>> ELSE << >>)
             \o ImplementingFrom(exts, event, i + 1)

\* what the emits of evs owe: for each event in turn, one invocation of each
\* implementing extension, in registration order, logged when the hook fails
RECURSIVE InvocationsOwed(_, _)
InvocationsOwed(exts, evs) ==
    IF evs = << >> THEN << >>
    ELSE LET impl == ImplementingFrom(exts, Head(evs), 1)
         IN  [i \in DOMAIN impl |->
                 [event |-> Head(evs), ext |-> impl[i].name,
                  logged |-> Head(evs) \in impl[i].fails]]
                 \o InvocationsOwed(exts, Tail(evs))

SuccessEvents ==
    {"collection-created", "collection-deleted", "document-deleted", "ingest-completed",
     "reindex-completed", "retrieval-completed"}

HookFailed(p) == \E i \in DOMAIN call[p].hooks : call[p].hooks[i].logged

\* C12: each emit invokes every registered extension implementing the hook
\* once, in registration order, the later ones also after a hook returned an
\* error; the error is only logged: a call whose hooks failed returns without
\* error exactly when its last event reports success, a CreateCollection among
\* them having persisted its collection and an Ingest returning ready its
\* document, chunks and vectors.
C12_HooksNeverInfluence ==
    \A p \in AllProcs :
        /\ call[p].hooks = InvocationsOwed(engine.extensions, call[p].events)
        /\ (call[p].pc = "done" /\ HookFailed(p)) =>
              /\ call[p].err = NoError <=>
                     call[p].events[Len(call[p].events)] \in SuccessEvents
              /\ (call[p].op = "CreateCollection") => call[p].colID \in DOMAIN collections
              /\ (call[p].op = "Ingest" /\ call[p].err = NoError) =>
                    /\ documents[call[p].docID].State = "ready"
                    /\ \A i \in DOMAIN call[p].chunks :
                          /\ call[p].chunks[i].ID \in DOMAIN chunks
                          /\ call[p].chunks[i].ID \in DOMAIN entries

\* an Ingest has returned ready although the hooks of the first extension
\* failed at each of its four events, the second extension having been
\* invoked after each failure
C12_Witness ==
    \E p \in Returned("Ingest") :
        /\ call[p].err = NoError
        /\ Len(call[p].hooks) = 8
        /\ \A i \in {1, 3, 5, 7} :
              /\ call[p].hooks[i].logged
              /\ call[p].hooks[i + 1].ext = "audit"
              /\ call[p].hooks[i + 1].event = call[p].hooks[i].event

----------------------------------------------------------------------------
(* Properties of IngestBatch, checked under SpecBatch *)

\* the result is that of a ready document persisted for the input
ResultOfInput(result, in) ==
    /\ result.State = "ready"
    /\ result.DocumentID \in DOMAIN documents
    /\ documents[result.DocumentID].CollectionID = in.CollectionID
    /\ documents[result.DocumentID].ContentHash = ContentHash(in.Content)

\* C13: IngestBatch returns the results of its inputs in input order, each of
\* state ready; with an error it returns the results of the inputs before the
\* first failing one and has started no Ingest after that one; without an
\* error it returns one result per input.
C13_BatchStopsAtFirstError ==
    \A p \in Returned("IngestBatch") :
        LET c == call[p]
            n == Len(c.results)
        IN  /\ n <= Len(c.inputs)
            /\ \A i \in 1..n : ResultOfInput(c.results[i], c.inputs[i])
            /\ \A i \in 1..n : \A j \in 1..n :
                  i # j => c.results[i].DocumentID # c.results[j].DocumentID
            /\ c.err = NoError => (n = Len(c.inputs) /\ c.started = n)
            /\ c.err # NoError => (n < Len(c.inputs) /\ c.started = n + 1)

\* a batch of two inputs has returned one result and the error of its second
\* input, and a batch of two inputs whose first input failed has returned none
C13_Witness ==
    \E p \in Returned("IngestBatch") :
        /\ Len(call[p].inputs) = 2
        /\ call[p].err # NoError
        /\ \/ Len(call[p].results) = 1 /\ call[p].started = 2
           \/ Len(call[p].results) = 0 /\ call[p].started = 1 /\ nextDoc = 2

----------------------------------------------------------------------------
(* Properties of Ingest's preconditions, checked under SpecConfig *)

\* the typed errors of the preconditions that fail for the Ingest of record c
FailedPreconditions(c) ==
    (IF engine.store THEN {} ELSE {ErrNoStore})
    \cup (IF engine.embedder THEN {} ELSE {ErrNoEmbedder})
    \cup (IF engine.vectorStore THEN {} ELSE {ErrNoVectorStore})
    \cup (IF engine.chunker THEN {} ELSE {ErrNoChunker})
    \cup (IF c.content # Empty THEN {} ELSE {ErrEmptyContent})
    \cup (IF c.colID \in DOMAIN collections THEN {} ELSE {ErrCollectionNotFound})

\* C14: an Ingest called while one of its preconditions fails returns at once
\* with the typed error of a failing precondition, has created no document,
\* has written to neither store and has emitted no event.
C14_PreconditionFailure ==
    [][\A p \in AllProcs :
         (call[p].pc = "idle" /\ call'[p].op = "Ingest" /\ FailedPreconditions(call'[p]) # {})
         => /\ call'[p].pc = "done"
            /\ call'[p].returned
            /\ \E e \in FailedPreconditions(call'[p]) : call'[p].err = e
            /\ call'[p].docID = NilID
            /\ call'[p].events = << >>
            /\ call'[p].hooks = << >>
            /\ UNCHANGED <<cache, collections, documents, chunks, entries, nextDoc>>]_vars

\* an Ingest of non-empty content into an existing collection has returned
\* no-chunker, and the stores hold no document, chunk or vector entry
C14_Witness ==
    \E p \in Returned("Ingest") :
        /\ call[p].err = ErrNoChunker
        /\ call[p].colID \in DOMAIN collections
        /\ call[p].content # Empty
        /\ call[p].events = << >>
        /\ DOMAIN documents = {} /\ DOMAIN chunks = {} /\ DOMAIN entries = {}

----------------------------------------------------------------------------
(* Properties of ReindexCollection, checked under SpecReindex *)

\* the sets of (vector entry id, score) pairs a search of the entries ents
\* for the query may return under the parameters
SearchPairs(ents, query, params) ==
    { { <<srs[i].ID, srs[i].Score>> : i \in DOMAIN srs } :
        srs \in VSSearch(ents, EmbedVector(query), DirectSearchOptions(params)) }

----------------------------------------------------------------------------
(* Properties of the collection events, checked under Spec *)

----------------------------------------------------------------------------
(* Properties of DeleteDocument, checked under Spec *)

----------------------------------------------------------------------------
(* Properties of Retrieve, checked under SpecRetrieve *)

\* C17: a Retrieve that has emitted retrieval-started has emitted after it,
\* when it returns, exactly one closing event: retrieval-completed exactly
\* when it returns no error, retrieval-failed exactly when it returns an
\* error, with an injected retriever and without one.
C17_RetrieveEventsBracket ==
    \A p \in Returned("Retrieve") :
        LET c == call[p]
            completed == Count(c.events, "retrieval-completed")
            failed == Count(c.events, "retrieval-failed")
        IN  IF Count(c.events, "retrieval-started") = 0
            THEN c.events = << >>
            ELSE /\ c.events[1] = "retrieval-started"
                 /\ Len(c.events) = 2
                 /\ completed + failed = 1
                 /\ completed = 1 <=> c.err = NoError
                 /\ failed = 1 <=> c.err # NoError

\* a Retrieve without an injected retriever whose search failed has returned
\* the wrapped error after retrieval-started and retrieval-failed
C17_Witness ==
    \E p \in Returned("Retrieve") :
        /\ engine.retriever.kind = "none"
        /\ call[p].err = Wrap("weave: search", ErrCollaborator)
        /\ call[p].events = <<"retrieval-started", "retrieval-failed">>

\* C20: a Retrieve whose caller gave no top_k, or gave 0 through WithTopK,
\* returns at most default_top_k results.
C20_DefaultTopKLimits ==
    \A p \in Returned("Retrieve") :
        (call[p].err = NoError /\ call[p].given.TopK \in {0, engine.defaultTopK})
        => Len(call[p].scored) <= engine.defaultTopK

----------------------------------------------------------------------------
(* Properties of the metadata-store backends, checked under SpecStore *)

\* C19: with every metadata store, a CreateCollection refused because the
\* tenant already has a collection of the name returns an error that is
\* collection-already-exists, and an Ingest refused because the collection
\* already holds a document of the content's hash returns an error that is
\* duplicate-document.
C19_TypedCollisionErrors ==
    /\ \A p \in Returned("CreateCollection") :
          (/\ call[p].err # NoError
           /\ \E k \in DOMAIN collections :
                 /\ collections[k].TenantID = call[p].col.TenantID
                 /\ collections[k].Name = call[p].col.Name)
          => ErrorIs(call[p].err, ErrCollectionAlreadyExists)
    /\ \A p \in Returned("Ingest") :
          (/\ call[p].err # NoError
           /\ call[p].docID = NilID
           /\ \E k \in DOMAIN documents :
                 /\ documents[k].CollectionID = call[p].colID
                 /\ documents[k].ContentHash = ContentHash(call[p].content))
          => ErrorIs(call[p].err, ErrDuplicateDocument)

----------------------------------------------------------------------------
(* Chunking: the engine with each shipped chunker, collections of small and
   of default chunk sizes and overlaps *)

ChunkerKinds == {"fixed", "recursive", "sliding"}

\* "alpha beta gamma delta epsilon zeta"
ScenarioContent ==
    << "a", "l", "p", "h", "a", " ", "b", "e", "t", "a", " ", "g",
       "a", "m", "m", "a", " ", "d", "e", "l", "t", "a", " ", "e",
       "p", "s", "i", "l", "o", "n", " ", "z", "e", "t", "a" >>

ChunkerEngines == { [DefaultEngine EXCEPT !.chunkerKind = k] : k \in ChunkerKinds }

ChunkerCollectionInputs ==
    [ID : {NilID}, Name : Names, TenantID : {Empty},
     ChunkSize : {0, 1, 20}, ChunkOverlap : {0, 1}]

ChunkerIngestInputs ==
    [CollectionID : CollectionIDs,
     Content : {ScenarioContent, <<" ", "a">>, <<"a", "b", "c", "d", "e">>},
     SourceType : {""}]

InitChunkers ==
    /\ engine \in ChunkerEngines
    /\ InitStores
    /\ call = [p \in AllProcs |-> Idle]

NextChunkers ==
    \E p \in {"p1"} :
        \/ \E in \in ChunkerCollectionInputs : CreateCollection(p, <<"T1">>, in)
        \/ \E in \in ChunkerIngestInputs : IngestStart(p, <<"T1">>, in)
        \/ IngestCreateDocument(p)
        \/ IngestMarkProcessing(p, NoFaults)
        \/ IngestProcess(p, {"embed"})
        \/ IngestStoreChunks(p, NoFaults)
        \/ IngestUpsert(p, NoFaults)
        \/ IngestMarkReady(p, NoFaults)
        \/ IngestFail(p, NoFaults)
        \/ Return(p)

SpecChunkers == InitChunkers /\ [][NextChunkers]_vars

----------------------------------------------------------------------------
(* The chunkers called on their own *)

\* texts: empty, blank, shorter and longer than one chunk of size 1, with
\* and without separators and surrounding blanks
ChunkInputTexts == { << >>, <<" ">>, <<"a">>, <<"a", "b">>, <<" ", "a">>,
                     <<"a", "b", "c", "d", "e">>, <<"a", "b", " ", "c", "d">> }

ChunkOptionInputs == [ChunkSize : {0, 1, 3}, ChunkOverlap : {0, 1, 3, DefaultChunkOverlap}]

\* Chunker.Chunk(ctx, text, opts) of the chunker of the kind
ChunkCall(p, kind, text, opts) ==
    /\ call[p].pc = "idle"
    /\ LET run == ChunkerRun(kind, text, opts)
       IN  call' = [call EXCEPT ![p] =
                      [Idle EXCEPT !.op = "Chunk", !.content = text,
                                   !.params = [kind |-> kind, ChunkSize |-> opts.ChunkSize,
                                               ChunkOverlap |-> opts.ChunkOverlap],
                                   !.list = run.chunks,
                                   !.returned = run.status = "ok",
                                   !.pc = IF run.status = "ok" THEN "done" ELSE run.status]]
    /\ UNCHANGED <<cache, engine, collections, documents, chunks, entries, nextCol, nextDoc>>

NextChunk ==
    \E p \in {"p1"} :
        \/ \E kind \in ChunkerKinds, text \in ChunkInputTexts, opts \in ChunkOptionInputs :
              ChunkCall(p, kind, text, opts)
        \/ Return(p)

SpecChunk == Init /\ [][NextChunk]_vars

----------------------------------------------------------------------------
(* Properties of chunking, checked under SpecChunkers and SpecChunk *)

\* the chunk size of a call in tokens, as each chunker reads its options
EffectiveChunkSize(c) ==
    IF c.params.ChunkSize > 0 THEN c.params.ChunkSize ELSE DefaultChunkSize

\* C22: with every chunker and every chunk overlap, a Chunk call on a text
\* shorter than the chunk size returns exactly one chunk, of index 0, start
\* offset 0 and end offset the length of the text.
C22_ShortTextOneChunk ==
    \A p \in AllProcs :
        LET c == call[p]
        IN  (c.op = "Chunk" /\ Len(c.content) < EffectiveChunkSize(c)) =>
              /\ c.pc = "done"
              /\ Len(c.list) = 1
              /\ c.list[1].Index = 0
              /\ c.list[1].StartOffset = 0
              /\ c.list[1].EndOffset = Len(c.content)

\* the Ingest of the scenario: the fixed chunker, a collection created with
\* chunk size 20 and overlap 0 (stamped with the default), the content above
FixedScenario(c) ==
    /\ engine.chunkerKind = "fixed"
    /\ c.op = "Ingest"
    /\ c.tenant = <<"T1">>
    /\ c.content = ScenarioContent
    /\ c.col.ID # NilID
    /\ c.col.ChunkSize = 20
    /\ c.col.ChunkOverlap = DefaultChunkOverlap

\* C21: the Ingest of "alpha beta gamma delta epsilon zeta" into a collection
\* created with chunk size 20 and overlap 0, with the fixed chunker and no
\* failing collaborator, does not crash or hang in the chunker, and ends with
\* the document ready with chunk_count 2, the chunks "alpha beta gamma de"
\* and "lta epsilon zeta" at the indices 0 and 1, and exactly 2 vector entries
\* of the document, tagged with its collection and tenant.
C21_FixedScenario ==
    \A p \in AllProcs :
        LET c == call[p]
            listed == StoreListChunksByDocument(chunks, c.docID)
        IN  FixedScenario(c) =>
              /\ c.pc \notin {"panic", "diverges"}
              /\ (c.returned /\ c.err = NoError) =>
                    /\ documents[c.docID].State = "ready"
                    /\ documents[c.docID].ChunkCount = 2
                    /\ Len(listed) = 2
                    /\ listed[1].Index = 0
                    /\ listed[1].Content = Slice(ScenarioContent, 0, 20)
                    /\ listed[2].Index = 1
                    /\ listed[2].Content = Slice(ScenarioContent, 20, 35)
                    /\ Cardinality(EntriesOfDocument(c.docID)) = 2
                    /\ \A e \in EntriesOfDocument(c.docID) :
                          /\ MetaGet(entries[e].Metadata, "collection_id") = IDString(c.colID)
                          /\ MetaGet(entries[e].Metadata, "tenant_id") = <<"T1">>

\* C29: for every non-empty text and every option value, a positive chunk
\* overlap and the default overlap of a created collection among them, a
\* call of the fixed chunker, and of the recursive chunker with its
\* last-resort splitAtSize, returns, and the offsets of every chunk it
\* returns lie within 0 and the length of the text.
C29_ChunkersTerminate ==
    \A p \in AllProcs :
        LET c == call[p]
        IN  (c.op = "Chunk" /\ c.params.kind \in {"fixed", "recursive"} /\ c.content # << >>) =>
              /\ c.pc = "done"
              /\ \A i \in DOMAIN c.list :
                    /\ 0 <= c.list[i].StartOffset
                    /\ c.list[i].StartOffset <= c.list[i].EndOffset
                    /\ c.list[i].EndOffset <= Len(c.content)

----------------------------------------------------------------------------
(* Package id: identifiers as the strings "prefix_suffix" *)

PrefixDocument == <<"d", "o", "c">>

PrefixCollection == <<"c", "o", "l">>

PrefixChunk == <<"c", "h", "k">>

PrefixPipeline == <<"p", "i", "p", "e">>

PrefixIngestJob == <<"i", "n", "g", "j", "o", "b">>

Prefixes == {PrefixDocument, PrefixCollection, PrefixChunk, PrefixPipeline, PrefixIngestJob}

\* typeid: a prefix of lowercase letters and inner underscores, and a suffix
\* in lowercase base32 whose first character is at most "7"; the 26
\* characters of a suffix are shortened to 2
PrefixLetters == {"b", "c", "d", "e", "g", "h", "i", "j", "k", "l", "n", "o", "p"}

SuffixAlphabet == {"0", "1", "7", "h", "z"}

ValidPrefix(prefix) ==
    /\ \A i \in DOMAIN prefix : prefix[i] \in PrefixLetters \cup {"_"}
    /\ prefix # << >> => (prefix[1] # "_" /\ prefix[Len(prefix)] # "_")

ValidSuffix(suffix) ==
    /\ Len(suffix) = 2
    /\ \A i \in DOMAIN suffix : suffix[i] \in SuffixAlphabet
    /\ suffix[1] \in {"0", "1", "7"}

\* the zero value of typeid.TypeID
ZeroTypeID == [prefix |-> << >>, suffix |-> <<"0", "0">>]

\* TypeID.String
TypeIDString(tid) ==
    IF tid.prefix = << >> THEN tid.suffix ELSE tid.prefix \o <<"_">> \o tid.suffix

\* strings.LastIndex for one character
LastIndex(text, ch) ==
    LET at == { i \in 0..(Len(text) - 1) : text[i + 1] = ch }
    IN  IF at = {} THEN 0 - 1 ELSE CHOOSE i \in at : \A j \in at : j <= i

\* typeid.Parse: the string is cut at its last underscore
TypeIDParse(s) ==
    LET i == LastIndex(s, "_")
        prefix == IF i < 0 THEN << >> ELSE Slice(s, 0, i)
        suffix == IF i < 0 THEN s ELSE Slice(s, i + 1, Len(s))
    IN  IF i >= 0 /\ prefix = << >>
        THEN [tid |-> ZeroTypeID, err |-> <<"typeid: empty prefix before separator">>]
        ELSE IF ~ValidPrefix(prefix)
        THEN [tid |-> ZeroTypeID, err |-> <<"typeid: invalid prefix">>]
        ELSE IF ~ValidSuffix(suffix)
        THEN [tid |-> ZeroTypeID, err |-> <<"typeid: invalid suffix">>]
        ELSE [tid |-> [prefix |-> prefix, suffix |-> suffix], err |-> NoError]

\* Nil: the zero-value ID
Nil == [inner |-> ZeroTypeID, valid |-> FALSE]

\* New(prefix), typeid.Generate having drawn the suffix
New(prefix, suffix) == [inner |-> [prefix |-> prefix, suffix |-> suffix], valid |-> TRUE]

String(i) == IF ~i.valid THEN << >> ELSE TypeIDString(i.inner)

Prefix(i) == IF ~i.valid THEN << >> ELSE i.inner.prefix

IsNil(i) == ~i.valid

Parse(s) ==
    IF s = << >> THEN [id |-> Nil, err |-> <<"id: parse: empty string">>]
    ELSE LET r == TypeIDParse(s)
         IN  IF r.err # NoError THEN [id |-> Nil, err |-> Wrap("id: parse", r.err)]
             ELSE [id |-> [inner |-> r.tid, valid |-> TRUE], err |-> NoError]

\* a variant of ParseWithPrefix that takes any prefix
ParseWithPrefixAny(s, expected) == Parse(s)

ParseWithPrefix(s, expected) ==
    LET parsed == Parse(s)
    IN  IF parsed.err # NoError THEN [id |-> Nil, err |-> parsed.err]
        ELSE IF Prefix(parsed.id) # expected
        THEN [id |-> Nil, err |-> <<"id: expected prefix", expected, Prefix(parsed.id)>>]
        ELSE parsed

MarshalText(i) ==
    IF ~i.valid THEN [data |-> << >>, err |-> NoError]
    ELSE [data |-> TypeIDString(i.inner), err |-> NoError]

\* a variant of UnmarshalText that parses the empty text as well
UnmarshalTextAlwaysParse(i, data) ==
    LET parsed == Parse(data)
    IN  IF parsed.err # NoError THEN [id |-> i, err |-> parsed.err]
        ELSE [id |-> parsed.id, err |-> NoError]

\* UnmarshalText on the receiver i: the receiver afterwards, and the error
UnmarshalText(i, data) ==
    IF Len(data) = 0 THEN [id |-> Nil, err |-> NoError]
    ELSE LET parsed == Parse(data)
         IN  IF parsed.err # NoError THEN [id |-> i, err |-> parsed.err]
             ELSE [id |-> parsed.id, err |-> NoError]

\* driver values: NULL, a string, bytes, or a value of another type
Null == [type |-> "nil", v |-> << >>]

Value(i) ==
    IF ~i.valid THEN [value |-> Null, err |-> NoError]
    ELSE [value |-> [type |-> "string", v |-> TypeIDString(i.inner)], err |-> NoError]

\* Scan on the receiver i
Scan(i, src) ==
    CASE src.type = "nil" -> [id |-> Nil, err |-> NoError]
      [] src.type = "string" ->
            IF src.v = << >> THEN [id |-> Nil, err |-> NoError] ELSE UnmarshalText(i, src.v)
      [] src.type = "bytes" ->
            IF Len(src.v) = 0 THEN [id |-> Nil, err |-> NoError] ELSE UnmarshalText(i, src.v)
      [] OTHER -> [id |-> i, err |-> <<"id: cannot scan into ID">>]

----------------------------------------------------------------------------
(* The id package called on its own *)

Suffixes == { <<"0", "1">>, <<"7", "z">> }

\* the ids New creates
FreshIDs == { New(prefix, suffix) : prefix \in Prefixes, suffix \in Suffixes }

\* strings that are not the string of a fresh id: empty, no prefix, empty
\* prefix, empty suffix, upper case, short suffix, suffix out of range, an
\* underscore inside the prefix
OtherStrings ==
    { << >>, <<"0", "1">>, <<"_", "0", "1">>, <<"d", "o", "c", "_">>,
      <<"D", "o", "c", "_", "0", "1">>, <<"d", "o", "c", "_", "0">>,
      <<"d", "o", "c", "_", "z", "z">>, <<"d", "o", "c", "_", "c", "o", "l", "_", "0", "1">> }

ParseInputs == { String(i) : i \in FreshIDs } \cup OtherStrings

\* every id a program can hold: nil, created, or parsed
AllIDs == {Nil} \cup FreshIDs \cup { Parse(s).id : s \in ParseInputs }

ScanInputs ==
    {Null, [type |-> "int64", v |-> << >>]}
    \cup { [type |-> t, v |-> s] : t \in {"string", "bytes"}, s \in ParseInputs }

NewCall(p, prefix, suffix) ==
    /\ call[p].pc = "idle"
    /\ call' = [call EXCEPT ![p] =
                  Done([Idle EXCEPT !.op = "New", !.given = New(prefix, suffix)], NoError)]
    /\ UNCHANGED <<cache, engine, collections, documents, chunks, entries, nextCol, nextDoc>>

ParseCall(p, s) ==
    /\ call[p].pc = "idle"
    /\ LET r == Parse(s)
       IN  call' = [call EXCEPT ![p] =
                      Done([Idle EXCEPT !.op = "Parse", !.content = s, !.result = r.id], r.err)]
    /\ UNCHANGED <<cache, engine, collections, documents, chunks, entries, nextCol, nextDoc>>

ParseWithPrefixCall(p, s, expected) ==
    /\ call[p].pc = "idle"
    /\ LET r == ParseWithPrefix(s, expected)
       IN  call' = [call EXCEPT ![p] =
                      Done([Idle EXCEPT !.op = "ParseWithPrefix", !.content = s,
                                        !.params = [expected |-> expected],
                                        !.result = r.id], r.err)]
    /\ UNCHANGED <<cache, engine, collections, documents, chunks, entries, nextCol, nextDoc>>

\* i.MarshalText() and then receiver.UnmarshalText(data)
TextRoundTripCall(p, i, receiver) ==
    /\ call[p].pc = "idle"
    /\ LET m == MarshalText(i)
           r == UnmarshalText(receiver, m.data)
       IN  call' = [call EXCEPT ![p] =
                      Done([Idle EXCEPT !.op = "TextRoundTrip", !.given = i,
                                        !.content = m.data, !.result = r.id],
                           IF m.err # NoError THEN m.err ELSE r.err)]
    /\ UNCHANGED <<cache, engine, collections, documents, chunks, entries, nextCol, nextDoc>>

\* i.Value() and then receiver.Scan(value)
ValueRoundTripCall(p, i, receiver) ==
    /\ call[p].pc = "idle"
    /\ LET v == Value(i)
           r == Scan(receiver, v.value)
       IN  call' = [call EXCEPT ![p] =
                      Done([Idle EXCEPT !.op = "ValueRoundTrip", !.given = i,
                                        !.params = [value |-> v.value], !.result = r.id],
                           IF v.err # NoError THEN v.err ELSE r.err)]
    /\ UNCHANGED <<cache, engine, collections, documents, chunks, entries, nextCol, nextDoc>>

ScanCall(p, src, receiver) ==
    /\ call[p].pc = "idle"
    /\ LET r == Scan(receiver, src)
       IN  call' = [call EXCEPT ![p] =
                      Done([Idle EXCEPT !.op = "Scan", !.given = receiver,
                                        !.params = [value |-> src], !.result = r.id], r.err)]
    /\ UNCHANGED <<cache, engine, collections, documents, chunks, entries, nextCol, nextDoc>>

NextID ==
    \E p \in {"p1"} :
        \/ \E prefix \in Prefixes, suffix \in Suffixes : NewCall(p, prefix, suffix)
        \/ \E s \in ParseInputs : ParseCall(p, s)
        \/ \E s \in ParseInputs, expected \in Prefixes : ParseWithPrefixCall(p, s, expected)
        \/ \E i \in AllIDs, receiver \in {Nil, New(PrefixChunk, <<"0", "1">>)} :
              TextRoundTripCall(p, i, receiver)
        \/ \E i \in AllIDs, receiver \in {Nil, New(PrefixChunk, <<"0", "1">>)} :
              ValueRoundTripCall(p, i, receiver)
        \/ \E src \in ScanInputs, receiver \in {Nil, New(PrefixChunk, <<"0", "1">>)} :
              ScanCall(p, src, receiver)
        \/ Return(p)

SpecID == Init /\ [][NextID]_vars

----------------------------------------------------------------------------
(* Properties of the id package, checked under SpecID *)

\* C24: parsing the string of a freshly created id of a defined prefix
\* succeeds and yields an id of the same string and prefix, with Parse and
\* with ParseWithPrefix of that prefix; ParseWithPrefix of another prefix,
\* as each typed parser calls it, returns an error.
C24_ParseRoundTrip ==
    \A p \in AllProcs, i \in FreshIDs :
        LET c == call[p]
        IN  /\ (c.op = "Parse" /\ c.content = String(i)) =>
                  /\ c.err = NoError
                  /\ String(c.result) = String(i)
                  /\ Prefix(c.result) = Prefix(i)
            /\ (c.op = "ParseWithPrefix" /\ c.content = String(i)) =>
                  IF c.params.expected = Prefix(i)
                  THEN /\ c.err = NoError
                       /\ String(c.result) = String(i)
                       /\ Prefix(c.result) = Prefix(i)
                  ELSE c.err # NoError

C24_Witness ==
    \E p \in AllProcs :
        /\ call[p].op = "ParseWithPrefix"
        /\ call[p].content = String(New(PrefixDocument, <<"0", "1">>))
        /\ call[p].params.expected = PrefixChunk
        /\ call[p].err # NoError

\* C25: the zero-value id is nil with empty string and empty prefix; an id
\* marshalled to text and unmarshalled, or turned into a database value and
\* scanned, comes back equal, the nil id going through the empty text and
\* through NULL; Parse of the empty string is an error.
C25_EncodingsRoundTrip ==
    /\ IsNil(Nil) /\ String(Nil) = << >> /\ Prefix(Nil) = << >>
    /\ \A p \in AllProcs :
          LET c == call[p]
          IN  /\ c.op = "TextRoundTrip" =>
                    /\ c.err = NoError
                    /\ c.result = c.given
                    /\ IsNil(c.given) => (c.content = << >> /\ IsNil(c.result))
              /\ c.op = "ValueRoundTrip" =>
                    /\ c.err = NoError
                    /\ c.result = c.given
                    /\ IsNil(c.given) => (c.params.value = Null /\ IsNil(c.result))
              /\ (c.op = "Scan" /\ c.params.value = Null) =>
                    (c.err = NoError /\ IsNil(c.result))
              /\ (c.op = "Parse" /\ c.content = << >>) => c.err # NoError

C25_Witness ==
    \E p \in AllProcs :
        /\ call[p].op = "ValueRoundTrip"
        /\ IsNil(call[p].given)
        /\ call[p].params.value = Null
        /\ call[p].pc = "done"

----------------------------------------------------------------------------
(* Properties of the two stores taken together, checked under Spec *)

\* C23: for every document, the chunks ListChunksByDocument returns are in
\* strictly ascending index order and their indices are 0, 1, ..., n-1.
C23_ListedChunksContiguous ==
    \A docID \in DocumentIDs :
        LET listed == StoreListChunksByDocument(chunks, docID)
        IN  \A i \in DOMAIN listed : listed[i].Index = i - 1

C23_Witness ==
    \E docID \in DocumentIDs : Len(StoreListChunksByDocument(chunks, docID)) = 2

\* C26: in every reachable state, between the steps of the calls and after a
\* failed vector-store delete as well, every vector entry's id is the id of a
\* chunk row of the metadata store.
C26_VectorsReferenceChunks == \A e \in DOMAIN entries : e \in DOMAIN chunks

\* C27: in Ingest, DeleteCollection and DeleteDocument the metadata store is
\* changed before the vector store: a step of Ingest that writes vector
\* entries finds the chunk rows of the call created, and a step of
\* DeleteCollection or DeleteDocument that removes vector entries finds the
\* chunk rows of the collection or document deleted.
C27_MetadataFirst ==
    [][\A p \in AllProcs :
          entries' # entries =>
            /\ call'[p].op = "Ingest" =>
                  \A i \in DOMAIN call[p].chunks : call[p].chunks[i].ID \in DOMAIN chunks
            /\ call'[p].op = "DeleteCollection" =>
                  \A k \in DOMAIN chunks : chunks[k].CollectionID # call'[p].colID
            /\ call'[p].op = "DeleteDocument" =>
                  ChunksOfDocument(chunks, call'[p].docID) = {}]_vars

----------------------------------------------------------------------------
(* Ingest with a metadata store whose UpdateDocument may fail *)

UpdateFaults == IngestFaults \cup {"updateDocument"}

NextUpdate ==
    \E p \in {"p1"} :
        \/ \E in \in CollectionInputs : CreateCollection(p, <<"A">>, in)
        \/ \E in \in IngestInputs : IngestStart(p, <<"A">>, in)
        \/ IngestCreateDocument(p)
        \/ IngestMarkProcessing(p, UpdateFaults)
        \/ IngestProcess(p, UpdateFaults)
        \/ IngestStoreChunks(p, UpdateFaults)
        \/ IngestUpsert(p, UpdateFaults)
        \/ IngestMarkReady(p, UpdateFaults)
        \/ IngestFail(p, UpdateFaults)
        \/ Return(p)

SpecUpdate == Init /\ [][NextUpdate]_vars

\* C28: an Ingest call that persisted its document returns with the
\* document's persisted state terminal, ready or failed, and equal to the
\* state of the returned result, whichever of the engine's best-effort
\* UpdateDocument calls fail.
C28_PersistedStateIsReturned ==
    \A p \in Returned("Ingest") :
        call[p].docID \in DOMAIN documents =>
            /\ documents[call[p].docID].State \in {"ready", "failed"}
            /\ documents[call[p].docID].State = call[p].result.State

----------------------------------------------------------------------------
(* Two callers: one ingests while the other deletes *)

ConcurrentCollectionInputs ==
    [ID : {NilID}, Name : Names, TenantID : {Empty}, ChunkSize : {0}, ChunkOverlap : {0}]

ConcurrentIngestInputs ==
    [CollectionID : CollectionIDs, Content : {<<"a">>, <<"b">>}, SourceType : {""}]

NextConcurrent ==
    \/ \E p \in {"p1"} :
          \/ \E in \in ConcurrentCollectionInputs : CreateCollection(p, <<"A">>, in)
          \/ \E in \in ConcurrentIngestInputs : IngestStart(p, <<"A">>, in)
          \/ IngestCreateDocument(p)
          \/ IngestMarkProcessing(p, NoFaults)
          \/ IngestProcess(p, {"embed"})
          \/ IngestStoreChunks(p, NoFaults)
          \/ IngestUpsert(p, NoFaults)
          \/ IngestMarkReady(p, NoFaults)
          \/ IngestFail(p, NoFaults)
          \/ Return(p)
    \/ \E p \in {"p2"} :
          \/ \E colID \in CollectionIDs : DeleteCollectionStart(p, <<"A">>, colID)
          \/ \E docID \in DocumentIDs : DeleteDocumentStart(p, <<"A">>, docID, NoFaults)
          \/ DeleteCollectionDocuments(p)
          \/ DeleteCollectionVectors(p, NoFaults)
          \/ DeleteCollectionRow(p)
          \/ DeleteDocumentChunks(p)
          \/ DeleteDocumentRow(p)
          \/ Return(p)

SpecConcurrent == Init /\ [][NextConcurrent]_vars

\* the Ingest i and the delete d of its collection or document have returned
BothReturned(i, d) ==
    /\ i.op = "Ingest" /\ i.pc = "done"
    /\ d.pc = "done"
    /\ \/ d.op = "DeleteCollection" /\ d.colID = i.colID
       \/ d.op = "DeleteDocument" /\ i.docID # NilID /\ d.docID = i.docID

\* no chunk row and no vector entry of a collection or document that is not
\* in the metadata store
NoOrphan(cols, docs, chs, ents) ==
    /\ \A k \in DOMAIN chs :
          /\ chs[k].CollectionID \in DOMAIN cols
          /\ chs[k].DocumentID \in DOMAIN docs
    /\ \A e \in DOMAIN ents :
          /\ \E c \in DOMAIN cols : MetaGet(ents[e].Metadata, "collection_id") = IDString(c)
          /\ \E doc \in DOMAIN docs : MetaGet(ents[e].Metadata, "document_id") = IDString(doc)

\* C30: once an Ingest and a DeleteCollection of its collection, or a
\* DeleteDocument of its document, running at the same time, have both
\* returned, no chunk row and no vector entry refers to a collection or
\* document that is not in the metadata store; and an Ingest does not return
\* state ready for a document that is not in the metadata store.
C30_ConcurrentDeleteLeavesNoOrphan ==
    [][/\ BothReturned(call'["p1"], call'["p2"])
          => NoOrphan(collections', documents', chunks', entries')
       /\ (/\ call["p1"].pc # "done"
           /\ call'["p1"].pc = "done"
           /\ call'["p1"].op = "Ingest"
           /\ call'["p1"].err = NoError
           /\ call'["p1"].result.State = "ready")
          => call'["p1"].docID \in DOMAIN documents']_vars

----------------------------------------------------------------------------
(* Two callers: one ingests while the other reindexes *)

NextReindexConcurrent ==
    \/ \E p \in {"p1"} :
          \/ \E in \in ConcurrentCollectionInputs : CreateCollection(p, <<"A">>, in)
          \/ \E in \in ConcurrentIngestInputs : IngestStart(p, <<"A">>, in)
          \/ IngestCreateDocument(p)
          \/ IngestMarkProcessing(p, NoFaults)
          \/ IngestProcess(p, {"embed"})
          \/ IngestStoreChunks(p, NoFaults)
          \/ IngestUpsert(p, NoFaults)
          \/ IngestMarkReady(p, NoFaults)
          \/ IngestFail(p, NoFaults)
          \/ Return(p)
    \/ \E p \in {"p2"} :
          \/ \E colID \in CollectionIDs : ReindexStart(p, <<"A">>, colID)
          \/ ReindexDeleteVectors(p, NoFaults)
          \/ ReindexDocument(p, NoFaults)
          \/ ReindexComplete(p)
          \/ Return(p)

SpecReindexConcurrent == Init /\ [][NextReindexConcurrent]_vars

ReindexInProgress ==
    \E p \in AllProcs : call[p].op = "ReindexCollection" /\ call[p].pc \notin {"idle", "done"}

\* C31: whenever no reindex is in progress, after a ReindexCollection that ran
\* at the same time as Ingest calls into its collection as well, every chunk
\* row of a ready document has the vector entry of its id.
C31_ReadyChunksHaveVectors ==
    ~ReindexInProgress =>
        \A k \in DOMAIN chunks :
            (/\ chunks[k].DocumentID \in DOMAIN documents
             /\ documents[chunks[k].DocumentID].State = "ready")
            => IDString(k) \in DOMAIN entries

----------------------------------------------------------------------------
(* Two callers that both ingest into the in-memory store *)

NextIngestConcurrent ==
    \/ \E p \in {"p1"}, in \in ConcurrentCollectionInputs : CreateCollection(p, <<"A">>, in)
    \/ \E p \in {"p1", "p2"} :
          \/ \E in \in ConcurrentIngestInputs : IngestStart(p, <<"A">>, in)
          \/ IngestCreateDocument(p)
          \/ IngestMarkProcessing(p, NoFaults)
          \/ IngestProcess(p, {"embed"})
          \/ IngestStoreChunks(p, NoFaults)
          \/ IngestUpsert(p, NoFaults)
          \/ IngestMarkReady(p, NoFaults)
          \/ IngestFail(p, NoFaults)
          \/ Return(p)

SpecIngestConcurrent == Init /\ [][NextIngestConcurrent]_vars

\* the Ingest c is past its CreateDocument
PastCreate(c) == c.op = "Ingest" /\ c.col.ID # NilID /\ c.pc # "createDocument"

\* C32: under every interleaving of Ingest calls against the in-memory store,
\* no two documents of a collection share a content hash; of the calls with
\* the same content into one collection at most one creates a document, and
\* each other one returns duplicate-document with no document, chunk or
\* vector entry of its own.
C32_NoDuplicateDocuments ==
    /\ \A d1, d2 \in DOMAIN documents :
          (/\ documents[d1].CollectionID = documents[d2].CollectionID
           /\ documents[d1].ContentHash = documents[d2].ContentHash) => d1 = d2
    /\ \A p \in AllProcs :
          (PastCreate(call[p]) /\ call[p].docID = NilID) =>
             /\ call[p].pc = "done"
             /\ ErrorIs(call[p].err, ErrDuplicateDocument)
             /\ call[p].chunks = << >>
             /\ call[p].entries = EmptyMap
             /\ \E d \in DOMAIN documents :
                   /\ documents[d].CollectionID = call[p].colID
                   /\ documents[d].ContentHash = ContentHash(call[p].content)
    /\ \A p, q \in AllProcs :
          (/\ p # q
           /\ PastCreate(call[p]) /\ PastCreate(call[q])
           /\ call[p].colID = call[q].colID
           /\ call[p].content = call[q].content)
          => (call[p].docID = NilID \/ call[q].docID = NilID)

C32_Witness ==
    /\ PastCreate(call["p1"]) /\ PastCreate(call["p2"])
    /\ call["p1"].colID = call["p2"].colID
    /\ call["p1"].content = call["p2"].content
    /\ call["p1"].pc = "upsert"
    /\ call["p2"].pc = "done"
    /\ ErrorIs(call["p2"].err, ErrDuplicateDocument)

----------------------------------------------------------------------------
(* Properties of retried and repeated ingests, checked under Spec *)

\* the documents of the collection and content of the Ingest c, other than
\* its own
EarlierDocuments(c) ==
    { d \in DOMAIN documents :
        /\ d # c.docID
        /\ documents[d].CollectionID = c.colID
        /\ documents[d].ContentHash = ContentHash(c.content) }

\* C33: an Ingest of a content into a collection whose only earlier document
\* of that content is in state failed is accepted: it is given a document of
\* its own, with a new id, and does not return an error for the earlier one.
C33_RetryAfterFailure ==
    \A p \in Returned("Ingest") :
        (/\ call[p].col.ID # NilID
         /\ EarlierDocuments(call[p]) # {}
         /\ \A d \in EarlierDocuments(call[p]) : documents[d].State = "failed")
        => /\ call[p].docID # NilID
           /\ call[p].docID \in DOMAIN documents
           /\ ~ErrorIs(call[p].err, ErrDuplicateDocument)

----------------------------------------------------------------------------
(* Ingest and reindex with chunkers that put metadata on their chunks *)

MetadataEngines ==
    { [DefaultEngine EXCEPT !.chunkerKind = k] : k \in {"sliding", "section", "tenant"} }

InitMetadata ==
    /\ engine \in MetadataEngines
    /\ InitStores
    /\ call = [p \in AllProcs |-> Idle]

NextMetadata ==
    \E p \in {"p1"} :
        \/ \E in \in ConcurrentCollectionInputs : CreateCollection(p, <<"A">>, in)
        \/ \E in \in ConcurrentIngestInputs : IngestStart(p, <<"A">>, in)
        \/ IngestCreateDocument(p)
        \/ IngestMarkProcessing(p, NoFaults)
        \/ IngestProcess(p, {"embed"})
        \/ IngestStoreChunks(p, NoFaults)
        \/ IngestUpsert(p, NoFaults)
        \/ IngestMarkReady(p, NoFaults)
        \/ IngestFail(p, NoFaults)
        \/ \E colID \in CollectionIDs : ReindexStart(p, <<"A">>, colID)
        \/ ReindexDeleteVectors(p, NoFaults)
        \/ ReindexDocument(p, NoFaults)
        \/ ReindexComplete(p)
        \/ Return(p)

SpecMetadata == InitMetadata /\ [][NextMetadata]_vars

\* C34: every chunk row carries the tenant of its document, and every vector
\* entry carries under collection_id, document_id, tenant_id and chunk_index
\* the collection, document, tenant and index of its chunk, whatever keys the
\* chunk's own metadata holds.
C34_EngineKeysStamped ==
    /\ \A k \in DOMAIN chunks :
          chunks[k].DocumentID \in DOMAIN documents
          => chunks[k].TenantID = documents[chunks[k].DocumentID].TenantID
    /\ \A e \in DOMAIN entries :
          e \in DOMAIN chunks =>
             /\ MetaGet(entries[e].Metadata, "collection_id") = IDString(chunks[e].CollectionID)
             /\ MetaGet(entries[e].Metadata, "document_id") = IDString(chunks[e].DocumentID)
             /\ MetaGet(entries[e].Metadata, "tenant_id") = chunks[e].TenantID
             /\ MetaGet(entries[e].Metadata, "chunk_index") = IndexString(chunks[e].Index)

----------------------------------------------------------------------------
(* The states of a document under ingests, reindexings and retrievals, over
   a metadata store whose UpdateDocument may fail *)

NextStates ==
    \E p \in {"p1"} :
        \/ \E in \in ConcurrentCollectionInputs : CreateCollection(p, <<"A">>, in)
        \/ \E in \in ConcurrentIngestInputs : IngestStart(p, <<"A">>, in)
        \/ IngestCreateDocument(p)
        \/ IngestMarkProcessing(p, UpdateFaults)
        \/ IngestProcess(p, UpdateFaults)
        \/ IngestStoreChunks(p, UpdateFaults)
        \/ IngestUpsert(p, UpdateFaults)
        \/ IngestMarkReady(p, UpdateFaults)
        \/ IngestFail(p, UpdateFaults)
        \/ \E colID \in CollectionIDs : ReindexStart(p, <<"A">>, colID)
        \/ ReindexDeleteVectors(p, NoFaults)
        \/ ReindexDocument(p, NoFaults)
        \/ ReindexComplete(p)
        \/ \E q \in Queries, given \in QueryRetrieveInputs : Retrieve(p, <<"A">>, q, given, NoFaults)
        \/ Return(p)

SpecStates == Init /\ [][NextStates]_vars

\* the changes of persisted state made in one step, as pairs (from, to)
StateChanges ==
    { <<documents[d].State, documents'[d].State>> :
        d \in { x \in DOMAIN documents \cap DOMAIN documents' :
                   documents[x].State # documents'[x].State } }

\* only the Ingest call that created a document changes its state or gives
\* it chunks and vectors
OwnIngestOnly ==
    \A d \in DOMAIN documents' :
        (\/ d \notin DOMAIN documents
         \/ documents[d].State # documents'[d].State
         \/ \E k \in DOMAIN chunks' \ DOMAIN chunks : chunks'[k].DocumentID = d)
        => \E p \in AllProcs : call'[p].op = "Ingest" /\ call'[p].docID = d

NewDocumentsPending ==
    \A d \in DOMAIN documents' \ DOMAIN documents : documents'[d].State = "pending"

\* the claim as stated: every change of persisted state is one edge of
\* pending -> processing -> ready | failed
C35_AsStated ==
    [][/\ StateChanges \subseteq {<<"pending", "processing">>, <<"processing", "ready">>,
                                  <<"processing", "failed">>}
       /\ NewDocumentsPending
       /\ OwnIngestOnly]_vars

\* C35: a document is persisted as pending, its persisted state only moves
\* forward in the order pending, processing, then ready or failed (passing
\* over processing when that best-effort update failed), ready and failed
\* are never left, and only the Ingest call that created a document changes
\* its state or gives it chunks.
C35_StatesMoveForward ==
    [][/\ StateChanges \subseteq {<<"pending", "processing">>, <<"processing", "ready">>,
                                  <<"processing", "failed">>, <<"pending", "ready">>,
                                  <<"pending", "failed">>}
       /\ NewDocumentsPending
       /\ OwnIngestOnly]_vars

\* one document has reached a terminal state, and an Ingest whose update to
\* processing failed is about to take its own from pending to ready
C35_Witness ==
    /\ \E d \in DOMAIN documents : documents[d].State \in {"ready", "failed"}
    /\ \E p \in AllProcs :
          /\ call[p].op = "Ingest"
          /\ call[p].pc = "markReady"
          /\ call[p].docID \in DOMAIN documents
          /\ documents[call[p].docID].State = "pending"

----------------------------------------------------------------------------
(* An embedder that may answer with an error, or with no error and fewer
   results than texts *)

EmbedFaults == {"embed", "embedShort", "reindexEmbed", "reindexEmbedShort"}

EmbedCollectionInputs ==
    [ID : {NilID}, Name : Names, TenantID : {Empty}, ChunkSize : {0, 1}, ChunkOverlap : {0}]

NextEmbed ==
    \E p \in {"p1"} :
        \/ \E in \in EmbedCollectionInputs : CreateCollection(p, <<"A">>, in)
        \/ \E in \in ReindexIngestInputs : IngestStart(p, <<"A">>, in)
        \/ IngestCreateDocument(p)
        \/ IngestMarkProcessing(p, NoFaults)
        \/ IngestProcess(p, EmbedFaults)
        \/ IngestStoreChunks(p, NoFaults)
        \/ IngestUpsert(p, NoFaults)
        \/ IngestMarkReady(p, NoFaults)
        \/ IngestFail(p, NoFaults)
        \/ \E colID \in CollectionIDs : ReindexStart(p, <<"A">>, colID)
        \/ ReindexDeleteVectors(p, NoFaults)
        \/ ReindexDocument(p, EmbedFaults)
        \/ ReindexComplete(p)
        \/ Return(p)

SpecEmbed == Init /\ [][NextEmbed]_vars

\* C36: whatever the embedder answers, no Ingest and no ReindexCollection
\* call panics, and an Ingest call that is over, having persisted its
\* document, left it ready or failed and emitted ingest-completed or
\* ingest-failed.
C36_EmbedderResponsesHandled ==
    \A p \in AllProcs :
        /\ call[p].pc # "panic"
        /\ (/\ call[p].op = "Ingest"
            /\ call[p].pc \in {"done", "panic"}
            /\ call[p].docID \in DOMAIN documents)
           => /\ documents[call[p].docID].State \in {"ready", "failed"}
              /\ \E i \in DOMAIN call[p].events :
                    call[p].events[i] \in {"ingest-completed", "ingest-failed"}

----------------------------------------------------------------------------
(* The in-memory metadata store called directly: collections created,
   updated and deleted *)

StoreNames == {"docs", "notes"}

StoreCollections ==
    [ID : CollectionIDs, Name : StoreNames, TenantID : {<<"A">>, <<"B">>},
     ChunkSize : {DefaultChunkSize}, ChunkOverlap : {DefaultChunkOverlap}]

StoreCreateCollection(p, col) ==
    /\ call[p].pc = "idle"
    /\ LET err == StoreCreateCollectionErr(collections, col)
           c0 == [Idle EXCEPT !.op = "Store.CreateCollection", !.colID = col.ID, !.col = col]
       IN  /\ collections' = IF err = NoError THEN Put(collections, col.ID, col) ELSE collections
           /\ call' = [call EXCEPT ![p] = Done(c0, err)]
    /\ UNCHANGED <<cache, engine, documents, chunks, entries, nextCol, nextDoc>>

StoreUpdateCollection(p, col) ==
    /\ call[p].pc = "idle"
    /\ LET err == StoreUpdateCollectionErr(collections, col)
           c0 == [Idle EXCEPT !.op = "Store.UpdateCollection", !.colID = col.ID, !.col = col]
       IN  /\ collections' = IF err = NoError THEN Put(collections, col.ID, col) ELSE collections
           /\ call' = [call EXCEPT ![p] = Done(c0, err)]
    /\ UNCHANGED <<cache, engine, documents, chunks, entries, nextCol, nextDoc>>

StoreDeleteCollection(p, colID) ==
    /\ call[p].pc = "idle"
    /\ LET err == StoreDeleteCollectionErr(collections, colID)
           c0 == [Idle EXCEPT !.op = "Store.DeleteCollection", !.colID = colID]
       IN  /\ IF err = NoError
              THEN /\ collections' = Remove(collections, {colID})
                   /\ documents' = Remove(documents, DocsOfCollection(documents, colID))
                   /\ chunks' = Remove(chunks, ChunksOfCollection(chunks, colID))
              ELSE UNCHANGED <<cache, collections, documents, chunks>>
           /\ call' = [call EXCEPT ![p] = Done(c0, err)]
    /\ UNCHANGED <<cache, engine, entries, nextCol, nextDoc>>

NextCollections ==
    \E p \in {"p1"} :
        \/ \E col \in StoreCollections : StoreCreateCollection(p, col)
        \/ \E col \in StoreCollections : StoreUpdateCollection(p, col)
        \/ \E colID \in CollectionIDs : StoreDeleteCollection(p, colID)
        \/ Return(p)

SpecCollections == Init /\ [][NextCollections]_vars

\* C37: no two collections of the in-memory store have the same tenant and
\* the same name, whatever CreateCollection, UpdateCollection and
\* DeleteCollection calls were made.
C37_NamesUnique ==
    \A a \in DOMAIN collections, b \in DOMAIN collections :
        (a # b /\ collections[a].TenantID = collections[b].TenantID)
        => collections[a].Name # collections[b].Name

----------------------------------------------------------------------------
(* Engine.HybridSearch *)

\* sortScoredChunks: an insertion sort, descending by score, equal scores
\* keeping their order
RECURSIVE sortScoredChunks(_)
sortScoredChunks(s) ==
    IF Len(s) <= 1 THEN s
    ELSE LET pre == sortScoredChunks(SubSeq(s, 1, Len(s) - 1))
             x == s[Len(s)]
             k == Cardinality({ i \in DOMAIN pre : pre[i].Score >= x.Score })
         IN  SubSeq(pre, 1, k) \o <<x>> \o SubSeq(pre, k + 1, Len(pre))

\* the TopK of the search: the configured default in place of 0
HybridTopK(eng, topK) == IF topK = 0 THEN eng.defaultTopK ELSE topK

\* the RetrieveParams of one Retrieve of the search: WithCollection(colID)
\* for a listed collection, no collection for the search across all
HybridRetrieveGiven(params, colID) ==
    [CollectionID |-> IDString(colID), TenantID |-> Empty,
     TopK |-> params.TopK, MinScore |-> params.MinScore]

\* the call starts: the TopK is resolved
HybridSearchStart(p, ctxTenant, query, in) ==
    /\ call[p].pc = "idle"
    /\ call' = [call EXCEPT ![p] =
                  [Idle EXCEPT !.op = "HybridSearch", !.pc = "hsRetrieve", !.tenant = ctxTenant,
                               !.content = query, !.given = in,
                               !.params = [in EXCEPT !.TopK = HybridTopK(engine, in.TopK)],
                               !.inputs = in.Collections]]
    /\ UNCHANGED <<cache, engine, collections, documents, chunks, entries, nextCol, nextDoc>>

\* one Retrieve of the search: of the next listed collection, or the single
\* one across all collections when none is listed
HybridSearchRetrieve(p, F) ==
    /\ call[p].pc = "hsRetrieve"
    /\ call[p].inputs # << >> \/ call[p].given.Collections = << >>
    /\ LET c == call[p]
           all == c.given.Collections = << >>
           given == HybridRetrieveGiven(c.params, IF all THEN NilID ELSE Head(c.inputs))
           params == RetrieveParams(given, c.tenant)
           c1 == [c EXCEPT !.started = c.started + 1,
                           !.events = Emit(c, "retrieval-started"),
                           !.hooks = Notify(c, "retrieval-started")]
           close(d, err) ==
               [d EXCEPT !.events = Emit(d, RetrieveClosingEvent(err)),
                         !.hooks = Notify(d, RetrieveClosingEvent(err))]
       IN  IF engine.retriever.kind = "none" /\ (~engine.embedder \/ ~engine.vectorStore)
           THEN call' = [call EXCEPT ![p] =
                           Done([c EXCEPT !.started = c.started + 1, !.scored = << >>],
                                ErrNotConfigured)]
           ELSE \E outcome \in Outcomes(F, IF engine.retriever.kind # "none"
                                           THEN {"retrieve"} ELSE {"embedQuery", "search"}) :
                  IF outcome # "ok"
                  THEN LET err == Wrap(RetrieveErrorMessage(outcome), ErrCollaborator)
                       IN  call' = [call EXCEPT ![p] =
                                      Done(close([c1 EXCEPT !.scored = << >>], err), err)]
                  ELSE \E results \in RetrieveResults(engine, entries, c.content, params) :
                         LET c2 == close([c1 EXCEPT !.results = Append(c.results, results)],
                                         NoError)
                         IN  IF all
                             THEN call' = [call EXCEPT ![p] =
                                             Done([c2 EXCEPT !.scored = results], NoError)]
                             ELSE call' = [call EXCEPT ![p] =
                                             [c2 EXCEPT !.scored = c.scored \o results,
                                                        !.inputs = Tail(c.inputs)]]
    /\ UNCHANGED <<cache, engine, collections, documents, chunks, entries, nextCol, nextDoc>>

\* every listed collection was searched: sort, cut to TopK, return
HybridSearchMerge(p) ==
    /\ call[p].pc = "hsRetrieve"
    /\ call[p].given.Collections # << >>
    /\ call[p].inputs = << >>
    /\ LET c == call[p]
           sorted == sortScoredChunks(c.scored)
       IN  IF Len(sorted) > c.params.TopK
           THEN IF c.params.TopK < 0
                THEN \* all[:TopK] with a negative TopK: slice bounds out of range
                     call' = [call EXCEPT ![p] = [c EXCEPT !.pc = "panic", !.scored = sorted]]
                ELSE call' = [call EXCEPT ![p] =
                                Done([c EXCEPT !.scored = SubSeq(sorted, 1, c.params.TopK)],
                                     NoError)]
           ELSE call' = [call EXCEPT ![p] = Done([c EXCEPT !.scored = sorted], NoError)]
    /\ UNCHANGED <<cache, engine, collections, documents, chunks, entries, nextCol, nextDoc>>

HybridEngines == { [DefaultEngine EXCEPT !.defaultTopK = k] : k \in {DefaultTopK, 1} }

\* two collections of one tenant, two chunks a document
HybridCollectionInputs ==
    [ID : {NilID}, Name : StoreNames, TenantID : {Empty}, ChunkSize : {1}, ChunkOverlap : {0}]

HybridIngestInputs == [CollectionID : CollectionIDs, Content : {<<"a", "b">>}, SourceType : {""}]

\* the searches: no collection, one, or two in either order; a TopK left
\* out, set, or negative as a request may carry it
HybridSearchInputs ==
    [Collections : {<< >>, <<NewCollectionID(1)>>,
                    <<NewCollectionID(1), NewCollectionID(2)>>,
                    <<NewCollectionID(2), NewCollectionID(1)>>},
     TopK : {0 - 1, 0, 1, 2}, MinScore : {0}]

InitHybrid ==
    /\ engine \in HybridEngines
    /\ InitStores
    /\ call = [p \in AllProcs |-> Idle]

NextHybrid ==
    \E p \in {"p1"} :
        \/ \E in \in HybridCollectionInputs : CreateCollection(p, <<"A">>, in)
        \/ \E in \in HybridIngestInputs : IngestStart(p, <<"A">>, in)
        \/ IngestCreateDocument(p)
        \/ IngestMarkProcessing(p, NoFaults)
        \/ IngestProcess(p, NoFaults)
        \/ IngestStoreChunks(p, NoFaults)
        \/ IngestUpsert(p, NoFaults)
        \/ IngestMarkReady(p, NoFaults)
        \/ \E in \in HybridSearchInputs : HybridSearchStart(p, <<"A">>, <<"b">>, in)
        \/ HybridSearchRetrieve(p, RetrieveFaults)
        \/ HybridSearchMerge(p)
        \/ Return(p)

SpecHybrid == InitHybrid /\ [][NextHybrid]_vars

RECURSIVE Flatten(_)
Flatten(ss) == IF ss = << >> THEN << >> ELSE Head(ss) \o Flatten(Tail(ss))

\* out is the sequence merged sorted by descending score and cut to k
SortedCut(out, merged, k) ==
    /\ Len(out) = Min(k, Len(merged))
    /\ \A i \in DOMAIN out, j \in DOMAIN out : i < j => out[i].Score >= out[j].Score
    /\ \A i \in DOMAIN merged :
          /\ Count(out, merged[i]) <= Count(merged, merged[i])
          /\ Count(out, merged[i]) < Count(merged, merged[i])
             => \A j \in DOMAIN out : out[j].Score >= merged[i].Score
    /\ \A j \in DOMAIN out : Count(merged, out[j]) > 0

\* the result sequences a Retrieve of the search may return for colID
HybridRetrieveResults(c, colID, topK) ==
    RetrieveResults(engine, entries, c.content,
                    [CollectionID |-> IDString(colID), TenantID |-> c.tenant,
                     TopK |-> topK, MinScore |-> c.given.MinScore])

\* C38: a HybridSearch call never panics; when it returns an error it
\* returns no results; with no listed collection it made one Retrieve across
\* all collections and returns its results; with listed collections it made
\* one Retrieve a listed collection, each with the top_k of the call (the
\* configured default for 0), and returns their results merged, sorted by
\* descending score and cut to that top_k.
C38_HybridSearchMerges ==
    \A p \in AllProcs :
        call[p].op = "HybridSearch" =>
            /\ call[p].pc # "panic"
            /\ call[p].pc = "done" =>
                 LET c == call[p]
                     listed == c.given.Collections
                     topK == IF c.given.TopK = 0 THEN engine.defaultTopK ELSE c.given.TopK
                 IN  IF c.err # NoError THEN c.scored = << >>
                     ELSE IF listed = << >>
                     THEN /\ c.started = 1
                          /\ c.scored \in HybridRetrieveResults(c, NilID, topK)
                     ELSE /\ c.started = Len(listed)
                          /\ Len(c.results) = Len(listed)
                          /\ \A i \in DOMAIN listed :
                                c.results[i] \in HybridRetrieveResults(c, listed[i], topK)
                          /\ SortedCut(c.scored, Flatten(c.results), topK)

----------------------------------------------------------------------------
(* MMRRetriever.Retrieve over the candidates a vector store hands it *)

Candidate(name, vector, score) ==
    [ID |-> <<name>>, Vector |-> vector, Content |-> <<name>>, Metadata |-> EmptyMap,
     Score |-> score]

\* four near-duplicates of score 0.95 and one diverse candidate of score 0.80
DiversityScenario ==
    << Candidate("n1", <<24, 7>>, (95 * ScoreOne) \div 100),
       Candidate("n2", <<24, 7>>, (95 * ScoreOne) \div 100),
       Candidate("n3", <<24, 7>>, (95 * ScoreOne) \div 100),
       Candidate("n4", <<24, 7>>, (95 * ScoreOne) \div 100),
       Candidate("d", <<4, 0 - 3>>, (80 * ScoreOne) \div 100) >>

\* the candidates of the query vector (1, 0) among three entries that lie
\* on both sides of it
OpposedCandidates ==
    << Candidate("x", <<3, 4>>, cosineSimilarity(<<1, 0>>, <<3, 4>>)),
       Candidate("w", <<5, 0 - 12>>, cosineSimilarity(<<1, 0>>, <<5, 0 - 12>>)),
       Candidate("y", <<0, 0 - 1>>, cosineSimilarity(<<1, 0>>, <<0, 0 - 1>>)) >>

\* the candidate lists: the leading candidates of either, the search being cut
MMRCandidateLists ==
    { SubSeq(DiversityScenario, 1, n) : n \in 0..Len(DiversityScenario) }
    \cup { SubSeq(OpposedCandidates, 1, n) : n \in 1..Len(OpposedCandidates) }

MMRTopKInputs == {0 - 1, 0, 1, 2, 3}

\* the lambda handed to NewMMRRetriever, in tenths
MMRLambdaInputs == {0, 3, 5, 7}

\* MMRRetriever.Retrieve from the search on: the re-ranking of the candidates
MMRRetrieveCall(p, cands, topK, lambda) ==
    /\ call[p].pc = "idle"
    /\ LET c0 == [Idle EXCEPT !.op = "MMRRetrieve", !.list = cands,
                              !.params = [TopK |-> topK, lambda |-> lambda]]
           selected == MMRSelect(cands, << >>, topK, MMRLambda(lambda))
       IN  IF cands # << >> /\ topK < 0
           THEN \* make([]int, 0, opts.TopK) with a negative capacity
                call' = [call EXCEPT ![p] = [c0 EXCEPT !.pc = "panic"]]
           ELSE call' = [call EXCEPT ![p] =
                           Done([c0 EXCEPT !.results = selected,
                                           !.scored = [i \in DOMAIN selected |->
                                                         ResultOf(cands[selected[i]])]],
                                NoError)]
    /\ UNCHANGED <<cache, engine, collections, documents, chunks, entries, nextCol, nextDoc>>

NextMMR ==
    \E p \in {"p1"} :
        \/ \E cands \in MMRCandidateLists, topK \in MMRTopKInputs, lambda \in MMRLambdaInputs :
              MMRRetrieveCall(p, cands, topK, lambda)
        \/ Return(p)

SpecMMR == Init /\ [][NextMMR]_vars

\* the largest cosine similarity of candidate i to the selected ones, 0 when
\* none is selected
LargestSimilarity(cands, selected, i) ==
    IF selected = << >> THEN 0
    ELSE LET sims == { cosineSimilarity(cands[i].Vector, cands[selected[k]].Vector) :
                       k \in DOMAIN selected }
         IN  CHOOSE m \in sims : \A n \in sims : n <= m

\* ten times lambda * relevance - (1 - lambda) * largest similarity
MarginalRelevance(cands, selected, i, lambda) ==
    lambda * cands[i].Score - (10 - lambda) * LargestSimilarity(cands, selected, i)

\* pick is the earliest unselected candidate of the largest marginal relevance
GreedyChoice(cands, selected, pick, lambda) ==
    /\ pick \in DOMAIN cands \ Range(selected)
    /\ \A j \in DOMAIN cands \ Range(selected) :
          \/ MarginalRelevance(cands, selected, j, lambda)
               < MarginalRelevance(cands, selected, pick, lambda)
          \/ /\ MarginalRelevance(cands, selected, j, lambda)
                  = MarginalRelevance(cands, selected, pick, lambda)
             /\ pick <= j

\* C39: MMRRetriever.Retrieve never panics and returns min(top_k, number of
\* candidates) distinct candidates, the k-th being the earliest unselected
\* candidate that maximises lambda * relevance - (1 - lambda) * (largest
\* cosine similarity to the k - 1 selected before it); on the scenario of
\* four near-duplicates and one diverse candidate with top_k 2 and lambda 0.5
\* it returns the first near-duplicate and then the diverse candidate.
C39_GreedyMMR ==
    \A p \in AllProcs :
        call[p].op = "MMRRetrieve" =>
            /\ call[p].pc # "panic"
            /\ call[p].pc = "done" =>
                 LET c == call[p]
                     lambda == MMRLambda(c.params.lambda)
                 IN  /\ Len(c.results) = Min(Max(c.params.TopK, 0), Len(c.list))
                     /\ \A k \in DOMAIN c.results :
                           GreedyChoice(c.list, SubSeq(c.results, 1, k - 1), c.results[k], lambda)
                     /\ c.scored = [k \in DOMAIN c.results |-> ResultOf(c.list[c.results[k]])]
                     /\ (c.list = DiversityScenario /\ c.params.TopK = 2 /\ lambda = 5)
                        => c.results = <<1, 5>>

----------------------------------------------------------------------------
(* package middleware: the step cache *)

StepNames == {"load", "embed"}

\* the StepContext.Values a step is entered with
StepValues ==
    UNION { [K -> {<<"1">>}] : K \in SUBSET {"doc", "model"} }

\* StepContext.Keys: the keys in the order the map is ranged in, which is
\* any order
Keys(values) ==
    { order \in [1..Cardinality(DOMAIN values) -> DOMAIN values] :
        \A i \in DOMAIN order, j \in DOMAIN order : i # j => order[i] # order[j] }

\* Cache.cacheKey: the hash of the "k=v;" of the keys in the order of Keys,
\* a hash being taken as one-to-one on what is written to it
cacheKey(values, order) == [i \in DOMAIN order |-> <<order[i], "=", values[order[i]], ";">>]

\* the step the middleware wraps: it sets its output in the context
StepRun(stepName, values) == PutAll(values, [k \in {"out"} |-> <<stepName>>])

ErrStep == <<"step failed">>

\* the handler Cache.Middleware(names...) returns, run on a StepContext
CacheMiddleware(p, names, stepName, values) ==
    /\ call[p].pc = "idle"
    /\ \E order \in Keys(values), outcome \in {"ok", "step"} :
         LET c0 == [Idle EXCEPT !.op = "Cache.Middleware"]
             key == cacheKey(values, order)
             cached == names = {} \/ stepName \in names
             ran(hit, executed, after, err) ==
                 Done([c0 EXCEPT !.params = [StepName |-> stepName, Values |-> values,
                                             Cached |-> cached,
                                             Hit |-> hit, Executed |-> executed,
                                             After |-> after]], err)
             hit == cached /\ stepName \in DOMAIN cache /\ key \in DOMAIN cache[stepName]
         IN  IF hit
             THEN \* SetCacheHit: the snapshot is copied over the values
                  /\ outcome = "ok"
                  /\ cache' = cache
                  /\ call' = [call EXCEPT ![p] =
                                ran(TRUE, FALSE, PutAll(values, cache[stepName][key]), NoError)]
             ELSE IF outcome # "ok"
             THEN /\ cache' = cache
                  /\ call' = [call EXCEPT ![p] = ran(FALSE, TRUE, values, ErrStep)]
             ELSE /\ cache' = IF cached
                              THEN Put(cache, stepName,
                                       Put(IF stepName \in DOMAIN cache THEN cache[stepName]
                                           ELSE EmptyMap,
                                           key, StepRun(stepName, values)))
                              ELSE cache
                  /\ call' = [call EXCEPT ![p] =
                                ran(FALSE, TRUE, StepRun(stepName, values), NoError)]
    /\ UNCHANGED <<engine, collections, documents, chunks, entries, nextCol, nextDoc>>

\* Cache.Clear
CacheClear(p) ==
    /\ call[p].pc = "idle"
    /\ cache # EmptyMap
    /\ cache' = EmptyMap
    /\ call' = [call EXCEPT ![p] = Done([Idle EXCEPT !.op = "Cache.Clear"], NoError)]
    /\ UNCHANGED <<engine, collections, documents, chunks, entries, nextCol, nextDoc>>

NextCache ==
    \E p \in {"p1"} :
        \/ \E names \in {{}, {"embed"}}, stepName \in StepNames, values \in StepValues :
              CacheMiddleware(p, names, stepName, values)
        \/ CacheClear(p)
        \/ Return(p)

SpecCache == Init /\ [][NextCache]_vars

\* the cached step succeeded before for a context of these key/value pairs
SucceededFor(stepName, values) ==
    /\ stepName \in DOMAIN cache
    /\ \E order \in Keys(values) : cacheKey(values, order) \in DOMAIN cache[stepName]

\* C40: a run of a cached step on a context whose key/value pairs it
\* succeeded for before is a cache hit, the step not being executed and the
\* cached values being in the context afterwards; and a run that returned an
\* error leaves the cache as it was.
C40_SamePairsHit ==
    [][\A p \in AllProcs :
         (call[p].pc = "idle" /\ call'[p].op = "Cache.Middleware") =>
            LET r == call'[p].params
            IN  /\ (r.Cached /\ SucceededFor(r.StepName, r.Values)) =>
                      /\ r.Hit
                      /\ ~r.Executed
                      /\ r.After = StepRun(r.StepName, r.Values)
                /\ call'[p].err # NoError => cache' = cache]_vars

====
